---------------------------- MODULE Spec2Model ----------------------------
(***************************************************************************)
(* A model of the MAYO signature core of mayo-rust: GF(16) arithmetic,     *)
(* nibble codec, matrix algebra, the Gauss-Jordan solver, key expansion,   *)
(* the sign attempt loop and verification.  Byte strings are sequences of  *)
(* 0..255, field elements are the u8 inside GFElement, matrices are        *)
(* records [rows, cols, data] with row-major data.  Result<T, &str> is a   *)
(* record [ok, val, err], Option<T> a record [some, v].                    *)
(*                                                                         *)
(* The two variants of the parameter table (66/64/8 and 78/64/18) are far  *)
(* beyond exhaustive exploration, so the operations run on a scaled-down   *)
(* variant with the same shape (v = n - o > o, byte lengths computed as    *)
(* the table's are); the literal tables are kept as mayo1 and mayo2.       *)
(* SHAKE256 and AES-128-CTR come from external crates; they are stood in   *)
(* by fixed byte-mixing streams that keep what the code relies on: the     *)
(* output is a function of the absorbed bytes, and a shorter read is a     *)
(* prefix of a longer one.                                                 *)
(***************************************************************************)
EXTENDS Integers, Sequences, FiniteSets, TLC

(***************************************************************************)
(* Bounds of the model: the dimensions of the scaled-down variant.         *)
(***************************************************************************)
ToyV == 3
ToyO == 2
ToyM == 2

(***************************************************************************)
(* Result and Option values.                                               *)
(***************************************************************************)
Ok(v) == [ok |-> TRUE, val |-> v, err |-> ""]
Err(e) == [ok |-> FALSE, val |-> <<>>, err |-> e]
\* A panic (an index out of bounds, a failed length assertion) unwinds out of
\* the call; it is kept apart from the Err values by its message.
Panic(msg) == [ok |-> FALSE, val |-> <<>>, err |-> "panic: " \o msg]
Some(x) == [some |-> TRUE, v |-> x]
None == [some |-> FALSE, v |-> <<>>]

Byte == 0..255

Min2(a, b) == IF a <= b THEN a ELSE b

\* A Vec built from an index function, held as a finished sequence.
Vec(f) == SubSeq(f, 1, Len(f))

(***************************************************************************)
(* u8 bit operations.                                                      *)
(***************************************************************************)
RECURSIVE BitXorN(_, _, _)
BitXorN(a, b, n) ==
  IF n = 0 THEN 0
  ELSE ((a + b) % 2) + 2 * BitXorN(a \div 2, b \div 2, n - 1)

\* The exclusive or of two nibbles, tabulated once.
NibbleXor == Vec([i \in 1..256 |-> BitXorN((i - 1) \div 16, (i - 1) % 16, 4)])

\* a ^ b on u8: the exclusive or of the high nibbles and of the low nibbles.
BitXor(a, b) ==
  16 * NibbleXor[(a \div 16) * 16 + (b \div 16) + 1] + NibbleXor[(a % 16) * 16 + (b % 16) + 1]

(***************************************************************************)
(* gf.rs                                                                   *)
(***************************************************************************)
NIBBLE_MASK == 15
\* x^4 + x^2 + 1 = (x^2 + x + 1)^2, a polynomial that is not irreducible.
F_POLY_U8_reducible == 16 + 4 + 1
F_POLY_U8 == 19

gf16_add(a, b) == BitXor(a, b) % (NIBBLE_MASK + 1)

gf16_sub(a, b) == BitXor(a, b) % (NIBBLE_MASK + 1)

\* One pass of the multiplication loop: p, val_a, val_b after `left` more rounds.
RECURSIVE gf16_mul_loop(_, _, _, _)
gf16_mul_loop(p, val_a, val_b, left) ==
  IF left = 0 THEN p
  ELSE LET p1 == IF val_b % 2 # 0 THEN BitXor(p, val_a) ELSE p
           b1 == val_b \div 2
           high_bit_set == (val_a \div 8) % 2 # 0
           sh == (val_a * 2) % 256
           a1 == IF high_bit_set THEN BitXor(sh, F_POLY_U8) ELSE sh
       IN gf16_mul_loop(p1, a1 % (NIBBLE_MASK + 1), b1, left - 1)

\* A variant that makes three rounds of the loop.
gf16_mul_nibbles_three_rounds(val_a, val_b) ==
  gf16_mul_loop(0, val_a, val_b, 3) % (NIBBLE_MASK + 1)

\* The function on two nibbles: p = 0, the four rounds, p & NIBBLE_MASK.
gf16_mul_nibbles(val_a, val_b) == gf16_mul_loop(0, val_a, val_b, 4) % (NIBBLE_MASK + 1)

\* gf16_mul_nibbles tabulated once over the 16 x 16 pairs of nibbles.
gf16_mul_table ==
  Vec([i \in 1..256 |-> gf16_mul_nibbles((i - 1) \div 16, (i - 1) % 16)])

\* val_a = a & NIBBLE_MASK, val_b = b & NIBBLE_MASK, then the product of the two.
gf16_mul(a, b) ==
  gf16_mul_table[(a % (NIBBLE_MASK + 1)) * 16 + (b % (NIBBLE_MASK + 1)) + 1]

RECURSIVE gf16_pow_loop(_, _, _)
\* result is a u8.
gf16_pow_loop(result, base, left) ==
  IF left <= 0 \/ result \notin Byte THEN result
  ELSE gf16_pow_loop(gf16_mul(result, base), base, left - 1)

gf16_pow(base, exp) ==
  IF exp = 0 THEN 1 ELSE gf16_pow_loop(base, base, exp - 1)

(***************************************************************************)
(* params.rs                                                               *)
(***************************************************************************)
bytes_for_gf16_elements(num_elements) == (num_elements + 1) \div 2

mayo1 ==
  [n |-> 66, m |-> 64, o |-> 8, k |-> 9,
   sk_seed_bytes |-> 24, pk_seed_bytes |-> 16, salt_bytes |-> 24, digest_bytes |-> 32,
   o_bytes |-> 232, p1_bytes |-> 54784, p2_bytes |-> 14848, p3_bytes |-> 1152]

\* The table of mayo2 with the p1_bytes its comment spells out ("64 * 1830").
mayo2_p1_bytes_of_the_comment ==
  [n |-> 78, m |-> 64, o |-> 18, k |-> 4,
   sk_seed_bytes |-> 24, pk_seed_bytes |-> 16, salt_bytes |-> 24, digest_bytes |-> 32,
   o_bytes |-> 540, p1_bytes |-> 64 * 1830, p2_bytes |-> 34560, p3_bytes |-> 5504]

mayo2 ==
  [n |-> 78, m |-> 64, o |-> 18, k |-> 4,
   sk_seed_bytes |-> 24, pk_seed_bytes |-> 16, salt_bytes |-> 24, digest_bytes |-> 32,
   o_bytes |-> 540, p1_bytes |-> 58560, p2_bytes |-> 34560, p3_bytes |-> 5504]

\* The scaled-down variant: the seed, salt and digest lengths of the table, the
\* dimensions of the bounds, and the component lengths the table's comments
\* derive ("64 * 856 (calculated for 58x58 upper triangular)").
params ==
  [n |-> ToyV + ToyO, m |-> ToyM, o |-> ToyO, k |-> 1,
   sk_seed_bytes |-> 24, pk_seed_bytes |-> 16, salt_bytes |-> 24, digest_bytes |-> 32,
   o_bytes |-> bytes_for_gf16_elements(ToyV * ToyO),
   p1_bytes |-> ToyM * bytes_for_gf16_elements((ToyV * (ToyV + 1)) \div 2),
   p2_bytes |-> ToyM * bytes_for_gf16_elements(ToyV * ToyO),
   p3_bytes |-> ToyM * bytes_for_gf16_elements((ToyO * (ToyO + 1)) \div 2)]

(***************************************************************************)
(* codec.rs                                                                *)
(***************************************************************************)
\* Variants of encode_gf_elements: the even index in the low nibble, and an
\* odd-length vector padded with ones.
encode_gf_elements_low_first(elements) ==
  LET num_elements == Len(elements)
      num_bytes == (num_elements + 1) \div 2
  IN Vec([i \in 1..num_bytes |->
            (elements[2 * i - 1] % 16)
            + (IF 2 * i <= num_elements THEN ((elements[2 * i] % 16) * 16) % 256 ELSE 0)])

encode_gf_elements_pad_ones(elements) ==
  LET num_elements == Len(elements)
      num_bytes == (num_elements + 1) \div 2
  IN Vec([i \in 1..num_bytes |->
            (((elements[2 * i - 1] % 16) * 16) % 256)
            + (IF 2 * i <= num_elements THEN (elements[2 * i] % 16) ELSE 15)])

encode_gf_elements(elements) ==
  LET num_elements == Len(elements)
      num_bytes == (num_elements + 1) \div 2
  IN Vec([i \in 1..num_bytes |->
            (((elements[2 * i - 1] % 16) * 16) % 256)
            + (IF 2 * i <= num_elements THEN (elements[2 * i] % 16) ELSE 0)])

decode_gf_elements(bytes, num_elements) ==
  LET expected_num_bytes == (num_elements + 1) \div 2
  IN IF Len(bytes) < expected_num_bytes
     THEN Err("Insufficient bytes to decode the specified number of GF elements")
     ELSE Ok(Vec([i \in 1..num_elements |->
                    IF (i - 1) % 2 = 0
                    THEN (bytes[((i - 1) \div 2) + 1] \div 16) % 16
                    ELSE bytes[((i - 1) \div 2) + 1] % 16]))

(***************************************************************************)
(* matrix.rs                                                               *)
(***************************************************************************)
\* Panics unless Len(data) = rows * cols; every caller passes exactly
\* rows * cols elements (decode_gf_elements returns as many as it is asked for).
new_with_data(rows, cols, data) == [rows |-> rows, cols |-> cols, data |-> data]

zero(rows, cols) ==
  [rows |-> rows, cols |-> cols, data |-> Vec([i \in 1..(rows * cols) |-> 0])]

\* r and c count from 0, as in the code.
get_unsafe(matrix, r, c) == matrix.data[r * matrix.cols + c + 1]

from_vectors(vecs) ==
  IF Len(vecs) = 0 THEN zero(0, 0)
  ELSE LET rows == Len(vecs)
           cols == Len(vecs[1])
       IN [rows |-> rows, cols |-> cols,
           data |-> Vec([i \in 1..(rows * cols) |->
                           vecs[((i - 1) \div cols) + 1][((i - 1) % cols) + 1]])]

matrix_add(a, b) ==
  IF a.rows # b.rows \/ a.cols # b.cols
  THEN Err("Matrices must have the same dimensions for addition")
  ELSE Ok(new_with_data(a.rows, a.cols,
                        Vec([i \in 1..Len(a.data) |-> gf16_add(a.data[i], b.data[i])])))

\* sum over k_idx in from..(upto - 1) of a[r, k_idx] * b[k_idx, c], added onto sum.
RECURSIVE matrix_mul_sum(_, _, _, _, _, _, _)
matrix_mul_sum(a, b, r, c, k_idx, upto, sum) ==
  IF k_idx >= upto THEN sum
  ELSE matrix_mul_sum(a, b, r, c, k_idx + 1, upto,
                      gf16_add(sum, gf16_mul(get_unsafe(a, r, k_idx), get_unsafe(b, k_idx, c))))

matrix_mul(a, b) ==
  IF a.cols # b.rows
  THEN Err("Number of columns in the first matrix must equal number of rows in the second")
  ELSE Ok([rows |-> a.rows, cols |-> b.cols,
           data |-> Vec([i \in 1..(a.rows * b.cols) |->
                           matrix_mul_sum(a, b, (i - 1) \div b.cols, (i - 1) % b.cols,
                                          0, a.cols, 0)])])

\* A variant that exchanges the dimensions and leaves the data in place.
matrix_transpose_dims_only(matrix) ==
  [rows |-> matrix.cols, cols |-> matrix.rows, data |-> matrix.data]

matrix_transpose(matrix) ==
  [rows |-> matrix.cols, cols |-> matrix.rows,
   data |-> Vec([i \in 1..(matrix.rows * matrix.cols) |->
                   get_unsafe(matrix, (i - 1) % matrix.rows, (i - 1) \div matrix.rows)])]

matrix_sub_vectors_gfvector(a, b) ==
  IF Len(a) # Len(b)
  THEN Err("Vector dimensions must match for subtraction")
  ELSE Ok(Vec([i \in 1..Len(a) |-> gf16_sub(a[i], b[i])]))

\* A variant that keeps the diagonal of the matrix, as the comment on the
\* function has it for an upper-triangular one.
matrix_symmetrize_keeps_diagonal(matrix) ==
  IF matrix.rows # matrix.cols THEN Err("Matrix must be square to be symmetrized")
  ELSE Ok([rows |-> matrix.rows, cols |-> matrix.rows,
           data |-> Vec([i \in 1..(matrix.rows * matrix.rows) |->
                           LET r == (i - 1) \div matrix.rows
                               c == (i - 1) % matrix.rows
                           IN IF r = c THEN get_unsafe(matrix, r, c)
                              ELSE gf16_add(get_unsafe(matrix, r, c),
                                            get_unsafe(matrix, c, r))])])

\* A variant that adds the transpose on and above the diagonal only.
matrix_symmetrize_upper_only(matrix) ==
  IF matrix.rows # matrix.cols
  THEN Err("Matrix must be square to be symmetrized")
  ELSE LET n == matrix.rows
       IN Ok([rows |-> n, cols |-> n,
              data |-> Vec([i \in 1..(n * n) |->
                              IF (i - 1) \div n <= (i - 1) % n
                              THEN gf16_add(get_unsafe(matrix, (i - 1) \div n, (i - 1) % n),
                                            get_unsafe(matrix, (i - 1) % n, (i - 1) \div n))
                              ELSE get_unsafe(matrix, (i - 1) \div n, (i - 1) % n)])])

matrix_symmetrize(matrix) ==
  IF matrix.rows # matrix.cols
  THEN Err("Matrix must be square to be symmetrized")
  ELSE LET n == matrix.rows
       IN Ok([rows |-> n, cols |-> n,
              data |-> Vec([i \in 1..(n * n) |->
                              gf16_add(get_unsafe(matrix, (i - 1) \div n, (i - 1) % n),
                                       get_unsafe(matrix, (i - 1) % n, (i - 1) \div n))])])

\* sum over r_m_idx of vector_lhs[r_m_idx] * matrix_rhs[r_m_idx, c_res].
RECURSIVE vec_mul_sum(_, _, _, _, _)
vec_mul_sum(vector_lhs, matrix_rhs, c_res, r_m_idx, sum) ==
  IF r_m_idx >= matrix_rhs.rows THEN sum
  ELSE vec_mul_sum(vector_lhs, matrix_rhs, c_res, r_m_idx + 1,
                   gf16_add(sum, gf16_mul(vector_lhs[r_m_idx + 1],
                                          get_unsafe(matrix_rhs, r_m_idx, c_res))))

matrix_vec_mul_transpose_gfvector(vector_lhs, matrix_rhs) ==
  IF Len(vector_lhs) # matrix_rhs.rows
  THEN Err("Vector length must match matrix rows for v^T * M multiplication")
  ELSE Ok(Vec([c \in 1..matrix_rhs.cols |->
                 vec_mul_sum(vector_lhs, matrix_rhs, c - 1, 0, 0)]))

RECURSIVE dot_sum(_, _, _, _)
dot_sum(a, b, i, sum) ==
  IF i > Len(a) THEN sum
  ELSE dot_sum(a, b, i + 1, gf16_add(sum, gf16_mul(a[i], b[i])))

vector_dot_product(a, b) ==
  IF Len(a) # Len(b)
  THEN Err("Vectors must have the same length for dot product")
  ELSE IF Len(a) = 0 THEN Ok(0)
  ELSE Ok(dot_sum(a, b, 1, 0))

(***************************************************************************)
(* codec.rs: the matrix decoders.                                          *)
(***************************************************************************)
\* The `?` over a loop: the first error, or the vector of the values.
RECURSIVE first_err(_, _)
first_err(results, i) ==
  IF i > Len(results) THEN 0
  ELSE IF ~results[i].ok THEN i
  ELSE first_err(results, i + 1)

collect(results) ==
  LET bad == first_err(results, 1)
  IN IF bad # 0 THEN Err(results[bad].err)
     ELSE Ok(Vec([i \in 1..Len(results) |-> results[i].val]))

decode_o_matrix(o_bytes, prm) ==
  LET rows == prm.n - prm.o
      cols == prm.o
      num_elements == rows * cols
      expected_byte_len == (num_elements + 1) \div 2
  IN IF Len(o_bytes) < expected_byte_len
     THEN Err("Insufficient o_bytes to decode O matrix based on calculated dimensions")
     ELSE LET elements == decode_gf_elements(o_bytes, num_elements)
          IN IF ~elements.ok THEN Err(elements.err)
             ELSE Ok(new_with_data(rows, cols, elements.val))

\* A variant that counts the upper triangle column by column.
upper_index_column_major(r, c, size) == ((c * (c + 1)) \div 2) + r

\* Position (counted from 0) of entry (r, c), r <= c, in the row-major list of
\* the upper triangle: the value of k when the loops reach (r, c).
upper_index(r, c, size) == r * size - ((r * (r - 1)) \div 2) + (c - r)

decode_upper_triangular_matrix(elements, size) ==
  IF Len(elements) # (size * (size + 1)) \div 2
  THEN Err("Incorrect number of elements for upper triangular matrix")
  ELSE Ok([rows |-> size, cols |-> size,
           data |-> Vec([i \in 1..(size * size) |->
                           LET r == (i - 1) \div size
                               c == (i - 1) % size
                           IN IF r <= c THEN elements[upper_index(r, c, size) + 1]
                              ELSE 0])])

decode_p1_matrices(p1_bytes, prm) ==
  IF Len(p1_bytes) # prm.p1_bytes
  THEN Err("p1_bytes length does not match params.p1_bytes field")
  ELSE LET bytes_per_p1_mat == prm.p1_bytes \div prm.m
           size_p1_mat == prm.n - prm.o
           num_elements_per_p1_mat_upper_tri == (size_p1_mat * (size_p1_mat + 1)) \div 2
           one(i) ==
             LET start_byte == i * bytes_per_p1_mat
                 mat_bytes == SubSeq(p1_bytes, start_byte + 1, start_byte + bytes_per_p1_mat)
                 elements == decode_gf_elements(mat_bytes, num_elements_per_p1_mat_upper_tri)
             IN IF ~elements.ok THEN Err(elements.err)
                ELSE decode_upper_triangular_matrix(elements.val, size_p1_mat)
       IN collect(Vec([i \in 1..prm.m |-> one(i - 1)]))

decode_p2_matrices(p2_bytes, prm) ==
  IF Len(p2_bytes) # prm.p2_bytes
  THEN Err("p2_bytes length does not match params.p2_bytes field")
  ELSE LET bytes_per_p2_mat == prm.p2_bytes \div prm.m
           rows_p2 == prm.n - prm.o
           cols_p2 == prm.o
           num_elements_per_p2_mat == rows_p2 * cols_p2
           one(i) ==
             LET start_byte == i * bytes_per_p2_mat
                 mat_bytes == SubSeq(p2_bytes, start_byte + 1, start_byte + bytes_per_p2_mat)
                 elements == decode_gf_elements(mat_bytes, num_elements_per_p2_mat)
             IN IF ~elements.ok THEN Err(elements.err)
                ELSE Ok(new_with_data(rows_p2, cols_p2, elements.val))
       IN collect(Vec([i \in 1..prm.m |-> one(i - 1)]))

decode_p3_matrices(p3_bytes, prm) ==
  IF Len(p3_bytes) # prm.p3_bytes
  THEN Err("p3_bytes length does not match params.p3_bytes field")
  ELSE LET bytes_per_p3_mat == prm.p3_bytes \div prm.m
           size_p3_mat == prm.o
           num_elements_per_p3_mat_upper_tri == (size_p3_mat * (size_p3_mat + 1)) \div 2
           one(i) ==
             LET start_byte == i * bytes_per_p3_mat
                 mat_bytes == SubSeq(p3_bytes, start_byte + 1, start_byte + bytes_per_p3_mat)
                 elements == decode_gf_elements(mat_bytes, num_elements_per_p3_mat_upper_tri)
             IN IF ~elements.ok THEN Err(elements.err)
                ELSE decode_upper_triangular_matrix(elements.val, size_p3_mat)
       IN collect(Vec([i \in 1..prm.m |-> one(i - 1)]))

decode_l_matrices(l_bytes, prm) ==
  LET rows_l == prm.n - prm.o
      cols_l == prm.o
      num_elements_per_l_mat == rows_l * cols_l
      expected_total_elements == prm.m * num_elements_per_l_mat
      elements == decode_gf_elements(l_bytes, expected_total_elements)
  IN IF ~elements.ok THEN Err(elements.err)
     ELSE Ok(Vec([i \in 1..prm.m |->
                    new_with_data(rows_l, cols_l,
                                  SubSeq(elements.val, (i - 1) * num_elements_per_l_mat + 1,
                                         i * num_elements_per_l_mat))]))

\* encode_s_vector packing the elements of s in reverse order.
encode_s_vector_reversed(s_vector, prm) ==
  encode_gf_elements(Vec([i \in 1..Len(s_vector) |-> s_vector[Len(s_vector) + 1 - i]]))

encode_s_vector(s_vector, prm) == encode_gf_elements(s_vector)

decode_s_vector(s_bytes, prm) == decode_gf_elements(s_bytes, prm.n)

(***************************************************************************)
(* The sha3 and aes/ctr crates.  SHAKE256 and AES-128-CTR are stood in for *)
(* by a small deterministic sponge: the output is a function of the whole  *)
(* input, and a shorter read is a prefix of a longer one, as for an XOF    *)
(* reader or a keystream started at counter 0.                             *)
(***************************************************************************)
\* hasher.update: the state after absorbing input[i..].  h stays below 65521.
RECURSIVE Absorb(_, _, _)
Absorb(h, input, i) ==
  IF i > Len(input) \/ h < 0 THEN h
  ELSE Absorb((h * 31 + input[i] + 1) % 65521, input, i + 1)

\* reader.read / apply_keystream: the first len bytes of the stream of state h.
Squeeze(h, len) ==
  Vec([i \in 1..len |-> (((h + 37 * i) * (2 * (h \div 16) + 22 * i + 3)) \div 8) % 256])

Shake256(input, len) == Squeeze(Absorb(5381, input, 1), len)

Ctr128BE_Aes128(key, len) == Squeeze(Absorb(40503, key, 1), len)

(***************************************************************************)
(* hash.rs                                                                 *)
(***************************************************************************)
shake256_digest(input, prm) == Shake256(input, prm.digest_bytes)

\* One reader, two reads: pk_seed_bytes bytes, then o_bytes bytes.
shake256_xof_derive_pk_seed_and_o(seed, prm) ==
  LET stream == Shake256(seed, prm.pk_seed_bytes + prm.o_bytes)
  IN [seedpk |-> SubSeq(stream, 1, prm.pk_seed_bytes),
      o_bytes |-> SubSeq(stream, prm.pk_seed_bytes + 1, prm.pk_seed_bytes + prm.o_bytes)]

shake256_xof_derive_p3(seed_pk, prm) == Shake256(seed_pk, prm.p3_bytes)

shake256_derive_target_t(m_digest, salt, prm) ==
  Shake256(m_digest \o salt, bytes_for_gf16_elements(prm.m))

(***************************************************************************)
(* aes_ctr.rs                                                              *)
(***************************************************************************)
aes128_ctr_generate(key_bytes, output_len) ==
  IF Len(key_bytes) # 16 THEN Panic("AES-128 key must be 16 bytes")
  ELSE Ok(Ctr128BE_Aes128(key_bytes, output_len))

derive_p1_bytes(seed_pk, prm) ==
  IF Len(seed_pk) # prm.pk_seed_bytes
  THEN Panic("SeedPK length does not match params.pk_seed_bytes for AES-128 key")
  ELSE aes128_ctr_generate(seed_pk, prm.p1_bytes)

derive_p2_bytes(seed_pk, prm) ==
  IF Len(seed_pk) # prm.pk_seed_bytes
  THEN Panic("SeedPK length does not match params.pk_seed_bytes for AES-128 key")
  ELSE aes128_ctr_generate(seed_pk, prm.p2_bytes)

(***************************************************************************)
(* solver.rs                                                               *)
(***************************************************************************)
gf16_inv(element) ==
  IF element = 0 THEN Err("Cannot invert zero element")
  ELSE Ok(gf16_pow(element, 14))

\* while i < num_equations && aug[i, pivot_col] == 0 { i += 1 }
RECURSIVE find_pivot(_, _, _)
find_pivot(aug, i, pivot_col) ==
  IF i < aug.rows /\ get_unsafe(aug, i, pivot_col) = 0
  THEN find_pivot(aug, i + 1, pivot_col)
  ELSE i

\* Rows pivot_row and i exchanged in the columns pivot_col.. of the augmented matrix.
swap_rows(aug, pivot_row, i, pivot_col) ==
  [aug EXCEPT !.data = Vec(
     [j \in 1..Len(aug.data) |->
        LET r == (j - 1) \div aug.cols
            k == (j - 1) % aug.cols
        IN IF k >= pivot_col /\ r = pivot_row THEN get_unsafe(aug, i, k)
           ELSE IF k >= pivot_col /\ r = i THEN get_unsafe(aug, pivot_row, k)
           ELSE aug.data[j]])]

\* A variant that leaves the pivot row as it is.
normalize_row_unscaled(aug, pivot_row, pivot_col, inv_pivot_val) == aug

\* The pivot row scaled by inv_pivot_val in the columns pivot_col.. .
normalize_row(aug, pivot_row, pivot_col, inv_pivot_val) ==
  [aug EXCEPT !.data = Vec(
     [j \in 1..Len(aug.data) |->
        LET r == (j - 1) \div aug.cols
            k == (j - 1) % aug.cols
        IN IF k >= pivot_col /\ r = pivot_row
           THEN gf16_mul(aug.data[j], inv_pivot_val)
           ELSE aug.data[j]])]

\* Every other row with a nonzero factor in pivot_col reduced by factor * pivot row.
eliminate_rows(aug, pivot_row, pivot_col) ==
  [aug EXCEPT !.data = Vec(
     [j \in 1..Len(aug.data) |->
        LET r == (j - 1) \div aug.cols
            k == (j - 1) % aug.cols
            factor == get_unsafe(aug, r, pivot_col)
        IN IF r # pivot_row /\ factor # 0 /\ k >= pivot_col
           THEN gf16_sub(aug.data[j], gf16_mul(factor, get_unsafe(aug, pivot_row, k)))
           ELSE aug.data[j]])]

\* The forward pass from pivot_col on: Ok([aug, rank]) or the error of gf16_inv.
RECURSIVE forward_elimination(_, _, _, _)
forward_elimination(aug, pivot_row, pivot_col, num_variables) ==
  IF pivot_col >= num_variables \/ pivot_row >= aug.rows
  THEN Ok([aug |-> aug, rank |-> pivot_row])
  ELSE LET normalize(swapped, inv_pivot_val) ==
             IF ~inv_pivot_val.ok THEN Err(inv_pivot_val.err)
             ELSE forward_elimination(
                    eliminate_rows(
                      normalize_row(swapped, pivot_row, pivot_col, inv_pivot_val.val),
                      pivot_row, pivot_col),
                    pivot_row + 1, pivot_col + 1, num_variables)
           pivot_at(i, swapped) ==
             IF i < aug.rows
             THEN normalize(swapped, gf16_inv(get_unsafe(swapped, pivot_row, pivot_col)))
             ELSE forward_elimination(aug, pivot_row, pivot_col + 1, num_variables)
           search(i) ==
             pivot_at(i, IF i < aug.rows /\ i # pivot_row
                         THEN swap_rows(aug, pivot_row, i, pivot_col) ELSE aug)
       IN search(find_pivot(aug, pivot_row, pivot_col))

\* A variant that looks at the first row after the pivot rows only.
inconsistent_first_row_only(aug, rank, num_variables) ==
  rank < aug.rows /\ get_unsafe(aug, rank, num_variables) # 0

\* for r_idx in rank..num_equations: a nonzero right-hand side in a zero row.
inconsistent(aug, rank, num_variables) ==
  \E r_idx \in rank..(aug.rows - 1) : get_unsafe(aug, r_idx, num_variables) # 0

\* A variant that takes the last nonzero coefficient of the row.
leading_col_rightmost(aug, r, p_col, num_variables) ==
  LET nonzero == {c \in p_col..(num_variables - 1) : get_unsafe(aug, r, c) # 0}
  IN IF nonzero = {} THEN num_variables
     ELSE CHOOSE c \in nonzero : \A d \in nonzero : d <= c

\* while p_col < num_variables && aug[r, p_col] == 0 { p_col += 1 }
RECURSIVE leading_col(_, _, _, _)
leading_col(aug, r, p_col, num_variables) ==
  IF p_col < num_variables /\ get_unsafe(aug, r, p_col) = 0
  THEN leading_col(aug, r, p_col + 1, num_variables)
  ELSE p_col

RECURSIVE back_sub_val(_, _, _, _, _, _)
back_sub_val(aug, r, c_idx, num_variables, solution, val) ==
  IF c_idx >= num_variables \/ val \notin Byte THEN val
  ELSE back_sub_val(aug, r, c_idx + 1, num_variables, solution,
                    gf16_sub(val, gf16_mul(get_unsafe(aug, r, c_idx), solution[c_idx + 1])))

\* for r_idx_piv in (0..rank).rev(): rows left to do are 0..(left - 1).
RECURSIVE back_substitution(_, _, _, _)
back_substitution(aug, left, num_variables, solution) ==
  IF left = 0 THEN Ok(Some(solution))
  ELSE LET r_idx_piv == left - 1
           substitute(p_col) ==
             IF p_col >= num_variables
             THEN Panic("index out of bounds")
             ELSE back_substitution(
                    aug, left - 1, num_variables,
                    [solution EXCEPT ![p_col + 1] =
                       back_sub_val(aug, r_idx_piv, p_col + 1, num_variables, solution,
                                    get_unsafe(aug, r_idx_piv, num_variables))])
       IN substitute(leading_col(aug, r_idx_piv, 0, num_variables))

solve_linear_system(a_matrix, y_vector) ==
  LET num_equations == a_matrix.rows
      num_variables == a_matrix.cols
  IN IF num_equations # Len(y_vector)
     THEN Err("Matrix A rows must match y_vector length")
     ELSE LET aug0 == [rows |-> num_equations, cols |-> num_variables + 1,
                       data |-> Vec([j \in 1..(num_equations * (num_variables + 1)) |->
                                   LET r == (j - 1) \div (num_variables + 1)
                                       c == (j - 1) % (num_variables + 1)
                                   IN IF c < num_variables THEN get_unsafe(a_matrix, r, c)
                                      ELSE y_vector[r + 1]])]
              echelon(fwd) ==
                IF ~fwd.ok THEN Err(fwd.err)
                ELSE IF inconsistent(fwd.val.aug, fwd.val.rank, num_variables)
                THEN Ok(None)
                ELSE back_substitution(fwd.val.aug, fwd.val.rank, num_variables,
                                       Vec([c \in 1..num_variables |-> 0]))
          IN echelon(forward_elimination(aug0, 0, 0, num_variables))

(***************************************************************************)
(* keygen.rs                                                               *)
(***************************************************************************)
\* What an entry point returns, with the number of SHAKE256 / AES-CTR
\* derivations it had run when it returned.
Ret(res, n) == [ok |-> res.ok, val |-> res.val, err |-> res.err, derivations |-> n]

\* rnd is what getrandom does to the seed buffer: Ok(bytes) or an error.
compact_key_gen(rnd, prm) ==
  IF ~rnd.ok THEN Ret(Err("Failed to generate random seedsk"), 0)
  ELSE LET seedsk == rnd.val
           construct(seedpk, p3_bytes) ==
             IF Len(p3_bytes) # prm.p3_bytes
             THEN Ret(Err("Derived P3_bytes length does not match params.p3_bytes"), 2)
             ELSE Ret(Ok([csk |-> seedsk, cpk |-> seedpk \o p3_bytes]), 2)
           derive_p3(seedpk) == construct(seedpk, shake256_xof_derive_p3(seedpk, prm))
       IN derive_p3(shake256_xof_derive_pk_seed_and_o(seedsk, prm).seedpk)

\* Li = (P(1)i + P(1)Ti)O + P(2)i
compute_l_i(p1_i, p2_i, o_matrix) ==
  LET p1_i_t == matrix_transpose(p1_i)
      add_p2(term1) ==
        IF ~term1.ok THEN Err(term1.err)
        ELSE matrix_add(term1.val, p2_i)
      mul_o(sum_p1_p1t) ==
        IF ~sum_p1_p1t.ok THEN Err(sum_p1_p1t.err)
        ELSE add_p2(matrix_mul(sum_p1_p1t.val, o_matrix))
  IN mul_o(matrix_add(p1_i, p1_i_t))

\* for l_i in &l_matrices { l_elements_flat.extend_from_slice(&l_i.data) }
RECURSIVE flatten(_, _)
flatten(l_matrices, i) ==
  IF i > Len(l_matrices) THEN <<>>
  ELSE l_matrices[i].data \o flatten(l_matrices, i + 1)

\* expand_sk up to the encoding of the L matrices: Ok carries the four parts.
expand_sk_components(csk, prm) ==
  LET seedsk == csk
      \* The steps after the derivation of seed_pk and O, the last one first;
      \* each takes the values computed before it.
      encode_l(xof, p1_all_bytes, l_matrices) ==
        IF ~l_matrices.ok THEN Ret(Err(l_matrices.err), 3)
        ELSE Ret(Ok([seedsk |-> seedsk, o_bytes |-> xof.o_bytes,
                     p1_all_bytes |-> p1_all_bytes.val,
                     l_all_bytes |-> encode_gf_elements(flatten(l_matrices.val, 1))]), 3)
      compute_l(xof, o_matrix, p1_all_bytes, p1_matrices, p2_matrices) ==
        IF ~p1_matrices.ok THEN Ret(Err(p1_matrices.err), 3)
        ELSE IF ~p2_matrices.ok THEN Ret(Err(p2_matrices.err), 3)
        ELSE IF Len(p1_matrices.val) # prm.m \/ Len(p2_matrices.val) # prm.m
        THEN Ret(Err("Incorrect number of P1 or P2 matrices decoded"), 3)
        ELSE encode_l(xof, p1_all_bytes,
                      collect(Vec([i \in 1..prm.m |->
                        compute_l_i(p1_matrices.val[i], p2_matrices.val[i], o_matrix.val)])))
      decode_p(xof, o_matrix, p1_all_bytes, p2_all_bytes) ==
        IF ~p2_all_bytes.ok THEN Ret(p2_all_bytes, 2)
        ELSE IF Len(p2_all_bytes.val) # prm.p2_bytes
        THEN Ret(Err("P2_bytes length mismatch during derivation"), 3)
        ELSE compute_l(xof, o_matrix, p1_all_bytes,
                       decode_p1_matrices(p1_all_bytes.val, prm),
                       decode_p2_matrices(p2_all_bytes.val, prm))
      derive_p2(xof, o_matrix, p1_all_bytes) ==
        IF ~p1_all_bytes.ok THEN Ret(p1_all_bytes, 1)
        ELSE IF Len(p1_all_bytes.val) # prm.p1_bytes
        THEN Ret(Err("P1_bytes length mismatch during derivation"), 2)
        ELSE decode_p(xof, o_matrix, p1_all_bytes, derive_p2_bytes(xof.seedpk, prm))
      derive_p1(xof, o_matrix) ==
        IF ~o_matrix.ok THEN Ret(Err(o_matrix.err), 1)
        ELSE derive_p2(xof, o_matrix, derive_p1_bytes(xof.seedpk, prm))
      decode_o(xof) ==
        IF Len(xof.o_bytes) # prm.o_bytes
        THEN Ret(Err("O_bytes length mismatch during derivation"), 1)
        ELSE derive_p1(xof, decode_o_matrix(xof.o_bytes, prm))
  IN decode_o(shake256_xof_derive_pk_seed_and_o(seedsk, prm))

expand_sk(csk, prm) ==
  LET expected_l_elements == prm.m * (prm.n - prm.o) * (prm.n - prm.o)
      expected_l_bytes_len == bytes_for_gf16_elements(expected_l_elements)
      construct(parts) ==
        IF ~parts.ok THEN parts
        ELSE IF Len(parts.val.l_all_bytes) # expected_l_bytes_len
        THEN Ret(Err("L_all_bytes length mismatch during encoding"), 3)
        ELSE Ret(Ok(parts.val.seedsk \o parts.val.o_bytes \o parts.val.p1_all_bytes
                    \o parts.val.l_all_bytes), 3)
  IN construct(expand_sk_components(csk, prm))

\* expand_pk with the P3 part derived again from seed_pk instead of copied.
expand_pk_rederives_p3(cpk, prm) ==
  IF Len(cpk) # prm.pk_seed_bytes + prm.p3_bytes
  THEN Ret(Err("Compact public key has incorrect length"), 0)
  ELSE LET seedpk == SubSeq(cpk, 1, prm.pk_seed_bytes)
           p3_all_bytes_from_cpk == shake256_xof_derive_p3(seedpk, prm)
           construct(p1_all_bytes, p2_all_bytes) ==
             IF ~p2_all_bytes.ok THEN Ret(p2_all_bytes, 1)
             ELSE IF Len(p2_all_bytes.val) # prm.p2_bytes
             THEN Ret(Err("P2_bytes length mismatch during derivation"), 2)
             ELSE Ret(Ok(p1_all_bytes.val \o p2_all_bytes.val \o p3_all_bytes_from_cpk), 2)
           derive_p2(p1_all_bytes) ==
             IF ~p1_all_bytes.ok THEN Ret(p1_all_bytes, 0)
             ELSE IF Len(p1_all_bytes.val) # prm.p1_bytes
             THEN Ret(Err("P1_bytes length mismatch during derivation"), 1)
             ELSE construct(p1_all_bytes, derive_p2_bytes(seedpk, prm))
       IN derive_p2(derive_p1_bytes(seedpk, prm))

expand_pk(cpk, prm) ==
  IF Len(cpk) # prm.pk_seed_bytes + prm.p3_bytes
  THEN Ret(Err("Compact public key has incorrect length"), 0)
  ELSE LET seedpk == SubSeq(cpk, 1, prm.pk_seed_bytes)
           p3_all_bytes_from_cpk == SubSeq(cpk, prm.pk_seed_bytes + 1, Len(cpk))
           construct(p1_all_bytes, p2_all_bytes) ==
             IF ~p2_all_bytes.ok THEN Ret(p2_all_bytes, 1)
             ELSE IF Len(p2_all_bytes.val) # prm.p2_bytes
             THEN Ret(Err("P2_bytes length mismatch during derivation"), 2)
             ELSE Ret(Ok(p1_all_bytes.val \o p2_all_bytes.val \o p3_all_bytes_from_cpk), 2)
           derive_p2(p1_all_bytes) ==
             IF ~p1_all_bytes.ok THEN Ret(p1_all_bytes, 0)
             ELSE IF Len(p1_all_bytes.val) # prm.p1_bytes
             THEN Ret(Err("P1_bytes length mismatch during derivation"), 1)
             ELSE construct(p1_all_bytes, derive_p2_bytes(seedpk, prm))
       IN derive_p2(derive_p1_bytes(seedpk, prm))

(***************************************************************************)
(* sign.rs                                                                 *)
(***************************************************************************)
\* A loop bound one pass short.
MAX_SIGN_RETRIES_one_short == 256 - 1

MAX_SIGN_RETRIES == 256

\* The body of `for i in 0..m`: Ok([y_prime_i, a_row_i]) or the error returned.
lin_system_row(vinegar_vars, p1_i, l_i, prm) ==
  LET num_vinegar_vars == prm.n - prm.o
      num_oil_vars == prm.o
      \* The steps of the body, the last one first; each takes the values
      \* computed before it.
      push(y_prime_i, a_row_i) ==
        IF ~a_row_i.ok THEN Err(a_row_i.err)
        ELSE Ok([y_prime_i |-> y_prime_i.val, a_row_i |-> a_row_i.val])
      mul_l(y_prime_i) ==
        IF ~y_prime_i.ok THEN Err(y_prime_i.err)
        ELSE IF l_i.rows # num_vinegar_vars \/ l_i.cols # num_oil_vars
        THEN Err("L matrix has incorrect dimensions")
        ELSE push(y_prime_i, matrix_vec_mul_transpose_gfvector(vinegar_vars, l_i))
      dot(temp_y_vec) ==
        IF ~temp_y_vec.ok THEN Err(temp_y_vec.err)
        ELSE mul_l(vector_dot_product(temp_y_vec.val, vinegar_vars))
      mul_sym(p1_i_symmetric) ==
        IF ~p1_i_symmetric.ok THEN Err(p1_i_symmetric.err)
        ELSE dot(matrix_vec_mul_transpose_gfvector(vinegar_vars, p1_i_symmetric.val))
  IN IF p1_i.rows # num_vinegar_vars \/ p1_i.cols # num_vinegar_vars
     THEN Err("P1 matrix has incorrect dimensions")
     ELSE mul_sym(matrix_symmetrize(p1_i))

\* A variant that takes every row of A from the first L matrix.
compute_lin_system_components_first_l(vinegar_vars, p1_mats, l_mats, prm) ==
  LET m == prm.m
      rows == collect(Vec([i \in 1..m |->
                 lin_system_row(vinegar_vars, p1_mats[i], l_mats[1], prm)]))
  IN Ok([a_matrix |-> from_vectors(Vec([i \in 1..m |-> rows.val[i].a_row_i])),
         y_prime_vector |-> Vec([i \in 1..m |-> rows.val[i].y_prime_i])])

compute_lin_system_components(vinegar_vars, p1_mats, l_mats, prm) ==
  LET num_vinegar_vars == prm.n - prm.o
      num_oil_vars == prm.o
      m == prm.m
  IN IF Len(vinegar_vars) # num_vinegar_vars
     THEN Err("Vinegar variables vector has incorrect length")
     ELSE IF Len(p1_mats) # m THEN Err("Incorrect number of P1 matrices")
     ELSE IF Len(l_mats) # m THEN Err("Incorrect number of L matrices")
     ELSE LET check(rows, a_matrix) ==
                IF a_matrix.rows # m \/ a_matrix.cols # num_oil_vars
                THEN Err("Constructed A matrix has incorrect dimensions")
                ELSE Ok([a_matrix |-> a_matrix,
                         y_prime_vector |-> Vec([i \in 1..m |-> rows.val[i].y_prime_i])])
              construct(rows) ==
                IF ~rows.ok THEN Err(rows.err)
                ELSE check(rows, from_vectors(Vec([i \in 1..m |-> rows.val[i].a_row_i])))
          IN construct(collect(Vec([i \in 1..m |->
                         lin_system_row(vinegar_vars, p1_mats[i], l_mats[i], prm)])))

\* sign_message up to the loop: the checks and decodings of the expanded key
\* and the message digest.  Ok carries the locals the loop reads.
sign_message_parse(esk, message, prm) ==
  LET seedsk_bytes_len == prm.sk_seed_bytes
      o_bytes_len == prm.o_bytes
      p1_all_bytes_len == prm.p1_bytes
      num_l_elements == prm.m * (prm.n - prm.o) * (prm.n - prm.o)
      l_all_bytes_len_expected == bytes_for_gf16_elements(num_l_elements)
  IN IF Len(esk) # seedsk_bytes_len + o_bytes_len + p1_all_bytes_len + l_all_bytes_len_expected
     THEN Ret(Err("Expanded secret key has incorrect total length based on components"), 0)
     ELSE
     LET seedsk == SubSeq(esk, 1, seedsk_bytes_len)
         o_bytes_slice == SubSeq(esk, seedsk_bytes_len + 1, seedsk_bytes_len + o_bytes_len)
         l_all_bytes_slice ==
           SubSeq(esk, seedsk_bytes_len + o_bytes_len + p1_all_bytes_len + 1, Len(esk))
         p1_all_bytes_from_esk_slice ==
           SubSeq(esk, seedsk_bytes_len + o_bytes_len + 1,
                  seedsk_bytes_len + o_bytes_len + p1_all_bytes_len)
         \* The steps after the length checks, the last one first; each takes
         \* the values computed before it.
         hash(p1_matrices, l_matrices) ==
           IF ~l_matrices.ok THEN Ret(Err(l_matrices.err), 3)
           ELSE Ret(Ok([p1_matrices |-> p1_matrices.val, l_matrices |-> l_matrices.val,
                        m_digest |-> shake256_digest(message, prm)]), 4)
         decode_l(p1_matrices, o_matrix) ==
           IF ~o_matrix.ok THEN Ret(Err(o_matrix.err), 3)
           ELSE hash(p1_matrices, decode_l_matrices(l_all_bytes_slice, prm))
         decode_o(p1_matrices, p3_matrices) ==
           IF ~p3_matrices.ok THEN Ret(Err(p3_matrices.err), 3)
           ELSE decode_l(p1_matrices, decode_o_matrix(o_bytes_slice, prm))
         decode_p3(xof, p1_matrices, p2_matrices) ==
           IF ~p2_matrices.ok THEN Ret(Err(p2_matrices.err), 3)
           ELSE decode_o(p1_matrices,
                         decode_p3_matrices(shake256_xof_derive_p3(xof.seedpk, prm), prm))
         decode_p2(xof, p1_matrices, p2_all_bytes_from_seedpk) ==
           IF ~p2_all_bytes_from_seedpk.ok THEN Ret(p2_all_bytes_from_seedpk, 1)
           ELSE decode_p3(xof, p1_matrices,
                          decode_p2_matrices(p2_all_bytes_from_seedpk.val, prm))
         derive_p2(xof, p1_matrices) ==
           IF ~p1_matrices.ok THEN Ret(Err(p1_matrices.err), 1)
           ELSE decode_p2(xof, p1_matrices, derive_p2_bytes(xof.seedpk, prm))
         check_o(xof) ==
           IF xof.o_bytes # o_bytes_slice
           THEN Ret(Err("O_bytes in ESK does not match derivation from seedsk in ESK"), 1)
           ELSE derive_p2(xof, decode_p1_matrices(p1_all_bytes_from_esk_slice, prm))
     IN IF Len(l_all_bytes_slice) # l_all_bytes_len_expected
        THEN Ret(Err("L_all_bytes component of ESK has unexpected length"), 0)
        ELSE check_o(shake256_xof_derive_pk_seed_and_o(seedsk, prm))

\* The solver results that are panics, which unwind through sign_message.
IsPanic(res) == res.err = Panic("index out of bounds").err

\* Vinegar sampling that takes two nibbles from each byte drawn.
sample_vinegar_packed(draws, prm) ==
  LET num_vinegar_vars == prm.n - prm.o
      num_bytes == (num_vinegar_vars + 1) \div 2
      failed_draw == first_err(SubSeq(draws, 1, Min2(Len(draws), num_bytes)), 1)
  IN IF failed_draw # 0
     THEN [ok |-> FALSE, val |-> <<>>, err |-> "Failed to generate random vinegar variable",
           rng_bytes |-> failed_draw - 1]
     ELSE [ok |-> TRUE,
           val |-> Vec([j \in 1..num_vinegar_vars |->
                          IF j % 2 = 1 THEN draws[(j + 1) \div 2].val \div 16
                          ELSE draws[j \div 2].val % 16]),
           err |-> "", rng_bytes |-> num_bytes]

\* for _ in 0..num_vinegar_vars { getrandom(&mut v_byte)?; push(v_byte[0] & 0x0F) }
\* draws[j] is what the j-th getrandom call does.  rng_bytes counts the bytes
\* delivered: one per call that succeeded.
sample_vinegar(draws, prm) ==
  LET num_vinegar_vars == prm.n - prm.o
      failed_draw == first_err(SubSeq(draws, 1, Min2(Len(draws), num_vinegar_vars)), 1)
  IN IF failed_draw # 0
     THEN [ok |-> FALSE, val |-> <<>>, err |-> "Failed to generate random vinegar variable",
           rng_bytes |-> failed_draw - 1]
     ELSE [ok |-> TRUE, val |-> Vec([j \in 1..num_vinegar_vars |-> draws[j].val % 16]),
           err |-> "", rng_bytes |-> num_vinegar_vars]

\* One pass of `for _retry_count in 0..MAX_SIGN_RETRIES`.  rng is what getrandom
\* does in this pass: rng.salt for the salt buffer, rng.vinegar[j] for the j-th
\* one-byte buffer.  kind is "return" (sign_message returns res) or "continue";
\* rng_bytes counts the bytes getrandom delivered in the pass.  The attempt
\* keeps the values of the pass: the salt, the target, the vinegar vector,
\* the arguments of solve_linear_system and its result.
sign_attempt(locals, rng, prm) ==
  LET salt == rng.salt.val
      none == [salt |-> <<>>, vinegar_vars |-> <<>>, t_vector |-> <<>>, system |-> None,
               solved |-> None]
      return_with(res, bytes, seen) ==
        [kind |-> "return", res |-> res, rng_bytes |-> bytes, attempt |-> seen]
      \* The steps after the salt is drawn, the last one first; each takes the
      \* values computed before it.  drawn holds the salt, the target and the
      \* vinegar vector of the pass, all_bytes the bytes getrandom delivered.
      emit(drawn, all_bytes, solved) ==
        IF IsPanic(solved)
        THEN return_with(solved, all_bytes, [drawn EXCEPT !.solved = Some(solved)])
        ELSE IF solved.ok /\ solved.val.some
        THEN LET x_solution_oils == solved.val.v
                 s_elements == drawn.vinegar_vars \o x_solution_oils
                 s_bytes == encode_s_vector(s_elements, prm)
             IN return_with(IF Len(x_solution_oils) # prm.o
                     THEN Err("Solver returned oil solution of incorrect length")
                     ELSE Ok(s_bytes \o salt),
                     all_bytes, [drawn EXCEPT !.solved = Some(solved)])
        ELSE [kind |-> "continue", res |-> Err(""), rng_bytes |-> all_bytes,
              attempt |-> [drawn EXCEPT !.solved = Some(solved)]]
      solve(drawn, all_bytes, lin, target_for_solver) ==
        IF ~target_for_solver.ok THEN return_with(Err(target_for_solver.err), all_bytes, drawn)
        ELSE emit([drawn EXCEPT !.system =
                     Some([a_matrix |-> lin.val.a_matrix,
                           target_for_solver |-> target_for_solver.val])],
                  all_bytes,
                  solve_linear_system(lin.val.a_matrix, target_for_solver.val))
      target(drawn, all_bytes, lin) ==
        IF ~lin.ok THEN return_with(Err(lin.err), all_bytes, drawn)
        ELSE solve(drawn, all_bytes, lin,
                   matrix_sub_vectors_gfvector(drawn.t_vector, lin.val.y_prime_vector))
      components(t_vector, vinegar) ==
        IF ~vinegar.ok
        THEN return_with(Err(vinegar.err), prm.salt_bytes + vinegar.rng_bytes,
                  [none EXCEPT !.salt = salt, !.t_vector = t_vector.val])
        ELSE target([none EXCEPT !.salt = salt, !.vinegar_vars = vinegar.val,
                                 !.t_vector = t_vector.val],
                    prm.salt_bytes + vinegar.rng_bytes,
                    compute_lin_system_components(vinegar.val, locals.p1_matrices,
                                                  locals.l_matrices, prm))
      sample(t_vector) ==
        IF ~t_vector.ok
        THEN return_with(Err(t_vector.err), prm.salt_bytes, [none EXCEPT !.salt = salt])
        ELSE components(t_vector, sample_vinegar(rng.vinegar, prm))
  IN IF ~rng.salt.ok
     THEN return_with(Err("Failed to generate random salt"), 0, none)
     ELSE sample(decode_gf_elements(
                   shake256_derive_target_t(locals.m_digest, salt, prm), prm.m))

\* The outcomes one pass of the loop can have once getrandom has answered rng:
\* the pass reads nothing else that could vary between two runs.
sign_pass_outcomes_own_entropy(locals, rng, prm) ==
  IF ~rng.salt.ok THEN {sign_attempt(locals, rng, prm)}
  ELSE {sign_attempt(locals, [rng EXCEPT !.salt = salt], prm) :
          salt \in {Ok(Vec([i \in 1..prm.salt_bytes |-> f])) : f \in {0, 1}}}

sign_pass_outcomes(locals, rng, prm) ==
  {sign_attempt(locals, rng, prm)}

(***************************************************************************)
(* verify.rs                                                               *)
(***************************************************************************)
\* A variant of the body that leaves the P2 term out of y_i.
p_star_s_row_without_p2(s_v, s_o, p1_i, p2_i, p3_i, prm) ==
  LET sym(matrix, vector) ==
        vector_dot_product(
          matrix_vec_mul_transpose_gfvector(vector, matrix_symmetrize(matrix).val).val,
          vector)
  IN Ok(gf16_add(sym(p1_i, s_v).val, sym(p3_i, s_o).val))

\* The body of `for i in 0..params.m`: Ok(y_i) or the error returned.
p_star_s_row(s_v, s_o, p1_i, p2_i, p3_i, prm) ==
  LET num_vinegar_vars == prm.n - prm.o
      num_oil_vars == prm.o
      \* The steps of the body, the last one first; each takes the values
      \* computed before it.
      add(term1, term2, term3) ==
        IF ~term3.ok THEN Err(term3.err)
        ELSE Ok(gf16_add(gf16_add(term1.val, term2.val), term3.val))
      dot_p3(term1, term2, so_p3_intermediate) ==
        IF ~so_p3_intermediate.ok THEN Err(so_p3_intermediate.err)
        ELSE add(term1, term2, vector_dot_product(so_p3_intermediate.val, s_o))
      mul_p3(p3_i_sym, term1, term2) ==
        IF ~term2.ok THEN Err(term2.err)
        ELSE dot_p3(term1, term2, matrix_vec_mul_transpose_gfvector(s_o, p3_i_sym.val))
      dot_p2(p3_i_sym, term1, sv_p2_intermediate) ==
        IF ~sv_p2_intermediate.ok THEN Err(sv_p2_intermediate.err)
        ELSE mul_p3(p3_i_sym, term1, vector_dot_product(sv_p2_intermediate.val, s_o))
      mul_p2(p3_i_sym, term1) ==
        IF ~term1.ok THEN Err(term1.err)
        ELSE dot_p2(p3_i_sym, term1, matrix_vec_mul_transpose_gfvector(s_v, p2_i))
      dot_p1(p3_i_sym, sv_p1_intermediate) ==
        IF ~sv_p1_intermediate.ok THEN Err(sv_p1_intermediate.err)
        ELSE mul_p2(p3_i_sym, vector_dot_product(sv_p1_intermediate.val, s_v))
      mul_p1(p1_i_sym, p3_i_sym) ==
        IF ~p3_i_sym.ok THEN Err(p3_i_sym.err)
        ELSE dot_p1(p3_i_sym, matrix_vec_mul_transpose_gfvector(s_v, p1_i_sym.val))
      symmetrize_p3(p1_i_sym) ==
        IF ~p1_i_sym.ok THEN Err(p1_i_sym.err)
        ELSE mul_p1(p1_i_sym, matrix_symmetrize(p3_i))
  IN IF p1_i.rows # num_vinegar_vars \/ p1_i.cols # num_vinegar_vars
     THEN Err("P1 matrix dimension mismatch")
     ELSE IF p2_i.rows # num_vinegar_vars \/ p2_i.cols # num_oil_vars
     THEN Err("P2 matrix dimension mismatch")
     ELSE IF p3_i.rows # num_oil_vars \/ p3_i.cols # num_oil_vars
     THEN Err("P3 matrix dimension mismatch")
     ELSE symmetrize_p3(matrix_symmetrize(p1_i))

compute_p_star_s(s_vector, p1_matrices, p2_matrices, p3_matrices, prm) ==
  IF Len(s_vector) # prm.n THEN Err("Signature vector s has incorrect length")
  ELSE IF Len(p1_matrices) # prm.m \/ Len(p2_matrices) # prm.m \/ Len(p3_matrices) # prm.m
  THEN Err("Incorrect number of P matrices")
  ELSE LET num_vinegar_vars == prm.n - prm.o
           num_oil_vars == prm.o
           s_v == SubSeq(s_vector, 1, num_vinegar_vars)
           s_o == SubSeq(s_vector, num_vinegar_vars + 1, prm.n)
       IN IF num_vinegar_vars + num_oil_vars # prm.n
          THEN Err("Internal error: n-o + o != n")
          ELSE collect(Vec([i \in 1..prm.m |->
                  p_star_s_row(s_v, s_o, p1_matrices[i], p2_matrices[i], p3_matrices[i], prm)]))

\* verify_signature with a mismatch of y and t reported as an error.
verify_signature_mismatch_is_error(epk, message, signature, prm) ==
  LET p1_bytes_end == prm.p1_bytes
      p2_bytes_end == prm.p1_bytes + prm.p2_bytes
      s_bytes_len == bytes_for_gf16_elements(prm.n)
      s_bytes == SubSeq(signature, 1, s_bytes_len)
      salt == SubSeq(signature, s_bytes_len + 1, Len(signature))
      \* The steps after the length check of epk, the last one first; each
      \* takes the values computed before it.
      compare(t_vector, y_computed_vector) ==
        IF ~y_computed_vector.ok THEN Ret(Err(y_computed_vector.err), 2)
        ELSE IF Len(y_computed_vector.val) # prm.m
        THEN Ret(Err("Computed y vector has incorrect length"), 2)
        ELSE IF y_computed_vector.val # t_vector.val
        THEN Ret(Err("Signature does not verify"), 2)
        ELSE Ret(Ok(TRUE), 2)
      compute_y(p1_matrices, p2_matrices, p3_matrices, s_vector, t_vector) ==
        IF ~t_vector.ok THEN Ret(Err(t_vector.err), 2)
        ELSE compare(t_vector, compute_p_star_s(s_vector.val, p1_matrices.val,
                                                p2_matrices.val, p3_matrices.val, prm))
      derive_t(p1_matrices, p2_matrices, p3_matrices, s_vector) ==
        IF ~s_vector.ok THEN Ret(Err(s_vector.err), 0)
        ELSE compute_y(p1_matrices, p2_matrices, p3_matrices, s_vector,
                       decode_gf_elements(
                         shake256_derive_target_t(shake256_digest(message, prm), salt, prm),
                         prm.m))
      decode_s(p1_matrices, p2_matrices, p3_matrices) ==
        IF ~p3_matrices.ok THEN Ret(Err(p3_matrices.err), 0)
        ELSE IF Len(signature) # s_bytes_len + prm.salt_bytes
        THEN Ret(Err("Signature has incorrect length"), 0)
        ELSE derive_t(p1_matrices, p2_matrices, p3_matrices, decode_s_vector(s_bytes, prm))
      decode_p3(p1_matrices, p2_matrices) ==
        IF ~p2_matrices.ok THEN Ret(Err(p2_matrices.err), 0)
        ELSE decode_s(p1_matrices, p2_matrices,
                      decode_p3_matrices(SubSeq(epk, p2_bytes_end + 1, Len(epk)), prm))
      decode_p2(p1_matrices) ==
        IF ~p1_matrices.ok THEN Ret(Err(p1_matrices.err), 0)
        ELSE decode_p3(p1_matrices,
                       decode_p2_matrices(SubSeq(epk, p1_bytes_end + 1, p2_bytes_end), prm))
  IN IF Len(epk) # prm.p1_bytes + prm.p2_bytes + prm.p3_bytes
     THEN Ret(Err("Expanded public key has incorrect length"), 0)
     ELSE decode_p2(decode_p1_matrices(SubSeq(epk, 1, p1_bytes_end), prm))

verify_signature(epk, message, signature, prm) ==
  LET p1_bytes_end == prm.p1_bytes
      p2_bytes_end == prm.p1_bytes + prm.p2_bytes
      s_bytes_len == bytes_for_gf16_elements(prm.n)
      s_bytes == SubSeq(signature, 1, s_bytes_len)
      salt == SubSeq(signature, s_bytes_len + 1, Len(signature))
      \* The steps after the length check of epk, the last one first; each
      \* takes the values computed before it.
      compare(t_vector, y_computed_vector) ==
        IF ~y_computed_vector.ok THEN Ret(Err(y_computed_vector.err), 2)
        ELSE IF Len(y_computed_vector.val) # prm.m
        THEN Ret(Err("Computed y vector has incorrect length"), 2)
        ELSE Ret(Ok(y_computed_vector.val = t_vector.val), 2)
      compute_y(p1_matrices, p2_matrices, p3_matrices, s_vector, t_vector) ==
        IF ~t_vector.ok THEN Ret(Err(t_vector.err), 2)
        ELSE compare(t_vector, compute_p_star_s(s_vector.val, p1_matrices.val,
                                                p2_matrices.val, p3_matrices.val, prm))
      derive_t(p1_matrices, p2_matrices, p3_matrices, s_vector) ==
        IF ~s_vector.ok THEN Ret(Err(s_vector.err), 0)
        ELSE compute_y(p1_matrices, p2_matrices, p3_matrices, s_vector,
                       decode_gf_elements(
                         shake256_derive_target_t(shake256_digest(message, prm), salt, prm),
                         prm.m))
      decode_s(p1_matrices, p2_matrices, p3_matrices) ==
        IF ~p3_matrices.ok THEN Ret(Err(p3_matrices.err), 0)
        ELSE IF Len(signature) # s_bytes_len + prm.salt_bytes
        THEN Ret(Err("Signature has incorrect length"), 0)
        ELSE derive_t(p1_matrices, p2_matrices, p3_matrices, decode_s_vector(s_bytes, prm))
      decode_p3(p1_matrices, p2_matrices) ==
        IF ~p2_matrices.ok THEN Ret(Err(p2_matrices.err), 0)
        ELSE decode_s(p1_matrices, p2_matrices,
                      decode_p3_matrices(SubSeq(epk, p2_bytes_end + 1, Len(epk)), prm))
      decode_p2(p1_matrices) ==
        IF ~p1_matrices.ok THEN Ret(Err(p1_matrices.err), 0)
        ELSE decode_p3(p1_matrices,
                       decode_p2_matrices(SubSeq(epk, p1_bytes_end + 1, p2_bytes_end), prm))
  IN IF Len(epk) # prm.p1_bytes + prm.p2_bytes + prm.p3_bytes
     THEN Ret(Err("Expanded public key has incorrect length"), 0)
     ELSE decode_p2(decode_p1_matrices(SubSeq(epk, 1, p1_bytes_end), prm))

(***************************************************************************)
(* api.rs                                                                  *)
(***************************************************************************)
keypair(rnd, prm) == compact_key_gen(rnd, prm)

\* open returning the signed message whole, signature included.
open_returns_signed_message(cpk, signed_message, prm) ==
  LET s_bytes_len == bytes_for_gf16_elements(prm.n)
      expected_sig_len == s_bytes_len + prm.salt_bytes
  IN IF Len(signed_message) < expected_sig_len
     THEN Ret(Err("Signed message is too short to contain a signature"), 0)
     ELSE LET signature == SubSeq(signed_message, 1, expected_sig_len)
              original_message == SubSeq(signed_message, expected_sig_len + 1,
                                         Len(signed_message))
              match(epk, verified) ==
                IF ~verified.ok
                THEN Ret(verified, epk.derivations + verified.derivations)
                ELSE IF verified.val
                THEN Ret(Ok(Some(signed_message)), epk.derivations + verified.derivations)
                ELSE Ret(Ok(None), epk.derivations + verified.derivations)
              verify(epk) ==
                IF ~epk.ok THEN epk
                ELSE match(epk, verify_signature(epk.val, original_message, signature, prm))
          IN verify(expand_pk(cpk, prm))

open(cpk, signed_message, prm) ==
  LET s_bytes_len == bytes_for_gf16_elements(prm.n)
      expected_sig_len == s_bytes_len + prm.salt_bytes
  IN IF Len(signed_message) < expected_sig_len
     THEN Ret(Err("Signed message is too short to contain a signature"), 0)
     ELSE LET signature == SubSeq(signed_message, 1, expected_sig_len)
              original_message == SubSeq(signed_message, expected_sig_len + 1,
                                         Len(signed_message))
              match(epk, verified) ==
                IF ~verified.ok
                THEN Ret(verified, epk.derivations + verified.derivations)
                ELSE IF verified.val
                THEN Ret(Ok(Some(original_message)), epk.derivations + verified.derivations)
                ELSE Ret(Ok(None), epk.derivations + verified.derivations)
              verify(epk) ==
                IF ~epk.ok THEN epk
                ELSE match(epk, verify_signature(epk.val, original_message, signature, prm))
          IN verify(expand_pk(cpk, prm))

(***************************************************************************)
(* The program as a state machine: a caller holding one key pair calls the *)
(* entry points one after another.  call is the record of the call that    *)
(* returned last.  While sign_message runs (pc = "signing") and when it is  *)
(* about to return (pc = "returning"), locals, retry_count, rng_bytes and  *)
(* attempt are its frame: the decoded key and digest, the passes of the    *)
(* loop finished, the bytes getrandom has delivered, and the salt, target, *)
(* vinegar vector and solver result of the last pass.  failed keeps, at    *)
(* the return, the pass before the last one.                               *)
(***************************************************************************)
VARIABLES pc, keys, call, locals, retry_count, rng_bytes, attempt, failed, twin

vars == <<pc, keys, call, locals, retry_count, rng_bytes, attempt, failed, twin>>

frame == <<locals, retry_count, rng_bytes, attempt, failed>>

Fill(b, n) == Vec([i \in 1..n |-> b])

\* The inputs the caller and the RNG choose from.
SeedFills == {1, 2}
SaltFills == {0, 1}
\* <<base, step>>: the j-th vinegar byte drawn is (base + step * j) % 256.
VinegarDraws == {<<0, 0>>, <<17, 33>>, <<240, 5>>}
Messages == {<<>>, <<21>>}

NoCall == [op |-> "none"]
NoFrame == <<>>

\* getrandom on the seed buffer.
SeedRng == {Ok(Fill(b, params.sk_seed_bytes)) : b \in SeedFills} \cup {Err("getrandom")}

\* getrandom during one pass of the sign loop: rng.salt is the call on the salt
\* buffer, rng.vinegar[j] the j-th call on the one-byte buffer.  The calls
\* after a failed one are not made.
RngDraws(d, upto, failing) ==
  Vec([j \in 1..upto |-> IF j = failing THEN Err("getrandom")
                         ELSE Ok((d[1] + d[2] * j) % 256)])

RngOutcomes ==
  {[salt |-> Err("getrandom"), vinegar |-> <<>>]}
  \cup {[salt |-> Ok(Fill(f, params.salt_bytes)), vinegar |-> RngDraws(<<17, 33>>, k, k)] :
          f \in SaltFills, k \in {1, params.n - params.o}}
  \cup {[salt |-> Ok(Fill(f, params.salt_bytes)),
         vinegar |-> RngDraws(d, params.n - params.o, 0)] :
          f \in SaltFills, d \in VinegarDraws}

\* The expanded secret key expand_sk prescribes for csk, its L part filled with
\* zero bytes up to the length sign_message asks for.
prescribed_esk(csk) ==
  LET len == bytes_for_gf16_elements(params.m * (params.n - params.o) * (params.n - params.o))
      layout(parts) ==
        parts.seedsk \o parts.o_bytes \o parts.p1_all_bytes \o parts.l_all_bytes
        \o Fill(0, len - Len(parts.l_all_bytes))
  IN layout(expand_sk_components(csk, params).val)

\* The same key as expand_sk lays it out, without the fill.
unpadded_esk(csk) ==
  LET layout(parts) ==
        parts.seedsk \o parts.o_bytes \o parts.p1_all_bytes \o parts.l_all_bytes
  IN layout(expand_sk_components(csk, params).val)

Pop(bytes) == SubSeq(bytes, 1, Len(bytes) - 1)

CskInputs == {keys.v.csk, Pop(keys.v.csk), keys.v.csk \o <<0>>}

CpkInputs ==
  LET cpk == keys.v.cpk
  IN {cpk, Pop(cpk), cpk \o <<0>>, [cpk EXCEPT ![Len(cpk)] = (cpk[Len(cpk)] + 1) % 256]}

EskInputs ==
  LET o_at == params.sk_seed_bytes + 1
      variants(esk) ==
        {esk, Pop(esk), esk \o <<0>>, unpadded_esk(keys.v.csk),
         [esk EXCEPT ![o_at] = (esk[o_at] + 1) % 256]}
  IN variants(prescribed_esk(keys.v.csk))

EpkInputs ==
  LET variants(epk) == {epk, Pop(epk), epk \o <<0>>}
  IN variants(expand_pk(keys.v.cpk, params).val)

\* create_dummy_signature of the tests: s = 0 and a constant salt.
dummy_signature(f) ==
  encode_s_vector(Fill(0, params.n), params) \o Fill(f, params.salt_bytes)

IsSignCall(c) == c.op \in {"sign_message", "sign"}

\* The signatures at hand: the one the last call returned, if it was a
\* signing call, and the dummy ones.
SigInputs ==
  (IF IsSignCall(call) /\ call.out.ok THEN {call.out.val, Pop(call.out.val)} ELSE {})
  \cup {dummy_signature(f) : f \in SaltFills}

\* The signing call a signature came from, if the last call returned it.
Provenance(signature) ==
  IF IsSignCall(call) /\ call.out.ok /\ call.out.val = signature
  THEN Some([esk |-> call.esk, message |-> call.message])
  ELSE None

Init ==
  /\ pc = "idle"
  /\ keys = None
  /\ call = NoCall
  /\ locals = NoFrame
  /\ retry_count = 0
  /\ rng_bytes = 0
  /\ attempt = NoFrame
  /\ failed = NoFrame
  /\ twin = NoFrame

\* keypair -> compact_key_gen
KeyGen ==
  /\ pc = "idle"
  /\ \E rnd \in SeedRng :
       LET out == keypair(rnd, params)
       IN /\ call' = [op |-> "keypair", out |-> out]
          /\ keys' = IF out.ok THEN Some(out.val) ELSE keys
  /\ UNCHANGED <<pc, frame, twin>>

ExpandSkCall ==
  /\ pc = "idle"
  /\ keys.some
  /\ \E csk \in CskInputs :
       call' = [op |-> "expand_sk", csk |-> csk, out |-> expand_sk(csk, params)]
  /\ UNCHANGED <<pc, keys, frame, twin>>

ExpandPkCall ==
  /\ pc = "idle"
  /\ keys.some
  /\ \E cpk \in CpkInputs :
       call' = [op |-> "expand_pk", cpk |-> cpk, out |-> expand_pk(cpk, params)]
  /\ UNCHANGED <<pc, keys, frame, twin>>

\* A sign_message that draws the salt before it checks the expanded key.
EnterSignMessage_draws_salt_first(op, key, esk, message, before) ==
  \E parsed \in {sign_message_parse(esk, message, params)} :
     IF ~parsed.ok
     THEN /\ call' = [op |-> op, key |-> key, esk |-> esk, message |-> message,
                      out |-> Ret(parsed, before + parsed.derivations)]
          /\ rng_bytes' = params.salt_bytes
          /\ UNCHANGED <<pc, locals, retry_count, attempt, failed>>
     ELSE /\ pc' = "signing"
          /\ call' = [op |-> op, key |-> key, esk |-> esk, message |-> message,
                      out |-> Ret(Err("running"), before + parsed.derivations)]
          /\ locals' = parsed.val
          /\ retry_count' = 0
          /\ rng_bytes' = 0
          /\ attempt' = NoFrame
          /\ failed' = NoFrame

\* sign_message entered from entry point op with the expanded key esk, after
\* `before` derivations of the caller: it returns from its checks, or reaches the loop.
EnterSignMessage(op, key, esk, message, before) ==
  \E parsed \in {sign_message_parse(esk, message, params)} :
     IF ~parsed.ok
     THEN /\ call' = [op |-> op, key |-> key, esk |-> esk, message |-> message,
                      out |-> Ret(parsed, before + parsed.derivations)]
          /\ UNCHANGED <<pc, frame>>
     ELSE /\ pc' = "signing"
          /\ call' = [op |-> op, key |-> key, esk |-> esk, message |-> message,
                      out |-> Ret(Err("running"), before + parsed.derivations)]
          /\ locals' = parsed.val
          /\ retry_count' = 0
          /\ rng_bytes' = 0
          /\ attempt' = NoFrame
          /\ failed' = NoFrame

SignMessageCall ==
  /\ pc = "idle"
  /\ keys.some
  /\ \E esk \in EskInputs, message \in Messages :
       EnterSignMessage("sign_message", esk, esk, message, 0)
  /\ UNCHANGED <<keys, twin>>

\* api sign: expand_sk, then sign_message.
ApiSign ==
  /\ pc = "idle"
  /\ keys.some
  /\ \E csk \in CskInputs, message \in Messages :
       \E esk \in {expand_sk(csk, params)} :
          IF ~esk.ok
          THEN /\ call' = [op |-> "sign", key |-> csk, esk |-> <<>>, message |-> message,
                           out |-> esk]
               /\ UNCHANGED <<pc, frame>>
          ELSE EnterSignMessage("sign", csk, esk.val, message, esk.derivations)
  /\ UNCHANGED <<keys, twin>>

\* A pass that goes on to the next one when a getrandom call failed.
LoopPass_retries_on_rng_failure(rng) ==
  \E pass \in sign_pass_outcomes(locals, rng, params) :
     LET retried == pass.kind = "continue" \/ ~pass.attempt.system.some
         exhausted == retried /\ retry_count + 1 >= MAX_SIGN_RETRIES
     IN /\ retry_count' = retry_count + 1
        /\ rng_bytes' = rng_bytes + pass.rng_bytes
        /\ attempt' = pass.attempt
        /\ IF ~retried \/ exhausted
           THEN /\ pc' = "returning"
                /\ failed' = attempt
                /\ call' = [call EXCEPT !.out =
                              Ret(IF exhausted
                                  THEN Err("MAYO.Sign failed after maximum retries")
                                  ELSE pass.res, call.out.derivations)]
           ELSE UNCHANGED <<pc, failed, call>>

\* A pass that keeps the salt of the pass before it.
LoopPass_keeps_salt(rng) ==
  \E pass \in sign_pass_outcomes(locals, rng, params) :
     LET exhausted == pass.kind = "continue" /\ retry_count + 1 >= MAX_SIGN_RETRIES
     IN /\ retry_count' = retry_count + 1
        /\ rng_bytes' = rng_bytes + pass.rng_bytes
        /\ attempt' = IF attempt = NoFrame THEN pass.attempt
                      ELSE [pass.attempt EXCEPT !.salt = attempt.salt]
        /\ IF pass.kind = "return" \/ exhausted
           THEN /\ pc' = "returning"
                /\ failed' = attempt
                /\ call' = [call EXCEPT !.out =
                              Ret(IF exhausted
                                  THEN Err("MAYO.Sign failed after maximum retries")
                                  ELSE pass.res, call.out.derivations)]
           ELSE UNCHANGED <<pc, failed, call>>

\* One pass of the loop of sign_message with the getrandom results rng, and the
\* end of the loop after the last pass.
LoopPass(rng) ==
  \E pass \in sign_pass_outcomes(locals, rng, params) :
     LET exhausted == pass.kind = "continue" /\ retry_count + 1 >= MAX_SIGN_RETRIES
     IN /\ retry_count' = retry_count + 1
        /\ rng_bytes' = rng_bytes + pass.rng_bytes
        /\ attempt' = pass.attempt
        /\ IF pass.kind = "return" \/ exhausted
           THEN /\ pc' = "returning"
                /\ failed' = attempt
                /\ call' = [call EXCEPT !.out =
                              Ret(IF exhausted
                                  THEN Err("MAYO.Sign failed after maximum retries")
                                  ELSE pass.res, call.out.derivations)]
           ELSE UNCHANGED <<pc, failed, call>>

Attempt ==
  /\ pc = "signing"
  /\ retry_count < MAX_SIGN_RETRIES
  /\ \E rng \in RngOutcomes : LoopPass(rng)
  /\ UNCHANGED <<keys, locals, twin>>

\* sign_message returns: its frame is gone, the caller has the result.
DropFrame ==
  /\ pc' = "idle"
  /\ locals' = NoFrame
  /\ retry_count' = 0
  /\ rng_bytes' = 0
  /\ attempt' = NoFrame
  /\ failed' = NoFrame

SignReturn ==
  /\ pc = "returning"
  /\ DropFrame
  /\ UNCHANGED <<keys, call, twin>>

VerifyCall ==
  /\ pc = "idle"
  /\ keys.some
  /\ \E epk \in EpkInputs, message \in Messages, signature \in SigInputs :
       call' = [op |-> "verify_signature", epk |-> epk, message |-> message,
                signature |-> signature, signed |-> Provenance(signature),
                out |-> verify_signature(epk, message, signature, params)]
  /\ UNCHANGED <<pc, keys, frame, twin>>

\* The signed messages at hand: a signature followed by a message, and one
\* that is shorter than a signature.
SignedMessageInputs ==
  {sig \o message : sig \in SigInputs, message \in Messages}

ApiOpen ==
  /\ pc = "idle"
  /\ keys.some
  /\ \E cpk \in CpkInputs, signed_message \in SignedMessageInputs :
       call' = [op |-> "open", cpk |-> cpk, signed_message |-> signed_message,
                out |-> open(cpk, signed_message, params)]
  /\ UNCHANGED <<pc, keys, frame, twin>>

Next ==
  \/ KeyGen
  \/ ExpandSkCall
  \/ ExpandPkCall
  \/ SignMessageCall
  \/ ApiSign
  \/ Attempt
  \/ SignReturn
  \/ VerifyCall
  \/ ApiOpen

Spec == Init /\ [][Next]_vars

(***************************************************************************)
(* Two runs of sign_message on the same expanded key and the same message, *)
(* getrandom answering both alike: the first run lives in the frame        *)
(* variables, the second in twin.                                          *)
(***************************************************************************)
twin_enter(parsed) ==
  IF ~parsed.ok
  THEN [pc |-> "idle", locals |-> NoFrame, retry_count |-> 0,
        out |-> Ret(parsed, parsed.derivations)]
  ELSE [pc |-> "signing", locals |-> parsed.val, retry_count |-> 0,
        out |-> Ret(Err("running"), parsed.derivations)]

\* One pass of the loop in the second run, and the end of the loop.
twin_pass(run, pass) ==
  LET exhausted == pass.kind = "continue" /\ run.retry_count + 1 >= MAX_SIGN_RETRIES
  IN [run EXCEPT !.retry_count = @ + 1,
                 !.pc = IF pass.kind = "return" \/ exhausted THEN "returning" ELSE @,
                 !.out = IF exhausted
                         THEN Ret(Err("MAYO.Sign failed after maximum retries"), @.derivations)
                         ELSE IF pass.kind = "return" THEN Ret(pass.res, @.derivations)
                         ELSE @]

TwinEnter ==
  /\ pc = "idle"
  /\ keys.some
  /\ \E esk \in EskInputs, message \in Messages :
       /\ EnterSignMessage("sign_message", esk, esk, message, 0)
       /\ \E parsed \in {sign_message_parse(esk, message, params)} :
            twin' = twin_enter(parsed)
  /\ UNCHANGED keys

TwinAttempt ==
  /\ pc = "signing"
  /\ twin.pc = "signing"
  /\ retry_count < MAX_SIGN_RETRIES
  /\ \E rng \in RngOutcomes :
       /\ LoopPass(rng)
       /\ \E pass \in sign_pass_outcomes(twin.locals, rng, params) :
            twin' = twin_pass(twin, pass)
  /\ UNCHANGED <<keys, locals>>

TwinReturn ==
  /\ pc = "returning"
  /\ twin.pc = "returning"
  /\ DropFrame
  /\ twin' = [twin EXCEPT !.pc = "idle", !.locals = NoFrame, !.retry_count = 0]
  /\ UNCHANGED <<keys, call>>

TwoRunsNext ==
  \/ KeyGen
  \/ TwinEnter
  \/ TwinAttempt
  \/ TwinReturn

TwoRuns == Init /\ [][TwoRunsNext]_vars

(***************************************************************************)
(* The codec on its own: the callers of codec.rs hand it vectors of field  *)
(* elements and byte strings of every length up to the bounds.             *)
(***************************************************************************)
MaxLen == 4

\* The upper-triangular matrices decoded on their own are at most MaxSize
\* by MaxSize.
MaxSize == 3

\* The u8 values a GFElement is given here: nibbles, and one byte with a high
\* nibble, which encode_gf_elements masks.
ElementInputs == {0, 1, 9, 15, 31}

ByteInputs == {0, 165, 255}

RECURSIVE SeqsUpTo(_, _)
\* The sequences over S of length at most n.
SeqsUpTo(S, n) ==
  IF n = 0 THEN {<<>>}
  ELSE LET shorter == SeqsUpTo(S, n - 1)
       IN shorter \cup {Append(q, x) : q \in {t \in shorter : Len(t) = n - 1}, x \in S}

GFVectorInputs == SeqsUpTo(ElementInputs, MaxLen)

ByteStringInputs == SeqsUpTo(ByteInputs, bytes_for_gf16_elements(MaxLen) + 1)

\* encode_gf_elements, then decode_gf_elements for as many elements.
EncodeDecodeCall ==
  /\ pc = "idle"
  /\ call = NoCall
  /\ \E elements \in GFVectorInputs :
       \E encoded \in {encode_gf_elements(elements)} :
          call' = [op |-> "encode_gf_elements", elements |-> elements, out |-> encoded,
                   decoded |-> decode_gf_elements(encoded, Len(elements))]
  /\ UNCHANGED <<pc, keys, frame, twin>>

DecodeCall ==
  /\ pc = "idle"
  /\ call = NoCall
  /\ \E bytes \in ByteStringInputs, num_elements \in 0..(MaxLen + 1) :
       call' = [op |-> "decode_gf_elements", bytes |-> bytes, num_elements |-> num_elements,
                out |-> decode_gf_elements(bytes, num_elements)]
  /\ UNCHANGED <<pc, keys, frame, twin>>

\* The byte strings handed to the matrix decoder whose declared length is
\* declared: every length up to one more than it.
MatrixBytesInputs(declared) ==
  {Fill(b, len) : b \in ByteInputs, len \in 0..(declared + 1)}

DecodeOCall ==
  /\ pc = "idle"
  /\ call = NoCall
  /\ \E o_bytes \in MatrixBytesInputs(params.o_bytes) :
       call' = [op |-> "decode_o_matrix", bytes |-> o_bytes, declared |-> params.o_bytes,
                out |-> decode_o_matrix(o_bytes, params)]
  /\ UNCHANGED <<pc, keys, frame, twin>>

\* The element vectors handed to decode_upper_triangular_matrix for a matrix
\* of the given size: the elements base + 1, base + 2, ... reduced to nibbles,
\* of every length up to one more than the upper triangle takes.
UpperTriangleInputs(size) ==
  {[k \in 1..len |-> (base + k) % 16] :
     base \in {0, 6, 9}, len \in 0..(((size * (size + 1)) \div 2) + 1)}

DecodeUpperTriangularCall ==
  /\ pc = "idle"
  /\ call = NoCall
  /\ \E size \in 0..MaxSize :
       \E elements \in UpperTriangleInputs(size) :
          call' = [op |-> "decode_upper_triangular_matrix", elements |-> elements,
                   size |-> size, out |-> decode_upper_triangular_matrix(elements, size)]
  /\ UNCHANGED <<pc, keys, frame, twin>>

DecodeP1Call ==
  /\ pc = "idle"
  /\ call = NoCall
  /\ \E p1_bytes \in MatrixBytesInputs(params.p1_bytes) :
       call' = [op |-> "decode_p1_matrices", bytes |-> p1_bytes, declared |-> params.p1_bytes,
                out |-> decode_p1_matrices(p1_bytes, params)]
  /\ UNCHANGED <<pc, keys, frame, twin>>

DecodeP2Call ==
  /\ pc = "idle"
  /\ call = NoCall
  /\ \E p2_bytes \in MatrixBytesInputs(params.p2_bytes) :
       call' = [op |-> "decode_p2_matrices", bytes |-> p2_bytes, declared |-> params.p2_bytes,
                out |-> decode_p2_matrices(p2_bytes, params)]
  /\ UNCHANGED <<pc, keys, frame, twin>>

DecodeP3Call ==
  /\ pc = "idle"
  /\ call = NoCall
  /\ \E p3_bytes \in MatrixBytesInputs(params.p3_bytes) :
       call' = [op |-> "decode_p3_matrices", bytes |-> p3_bytes, declared |-> params.p3_bytes,
                out |-> decode_p3_matrices(p3_bytes, params)]
  /\ UNCHANGED <<pc, keys, frame, twin>>

\* MayoParams::mayo1() or MayoParams::mayo2(), and its variant().
VariantCall ==
  /\ pc = "idle"
  /\ call = NoCall
  /\ \E name \in {"MAYO1", "MAYO2"} :
       call' = [op |-> "variant", name |-> name,
                out |-> IF name = "MAYO1" THEN mayo1 ELSE mayo2]
  /\ UNCHANGED <<pc, keys, frame, twin>>

CodecNext ==
  \/ VariantCall
  \/ EncodeDecodeCall
  \/ DecodeCall
  \/ DecodeOCall
  \/ DecodeUpperTriangularCall
  \/ DecodeP1Call
  \/ DecodeP2Call
  \/ DecodeP3Call

CodecSpec == Init /\ [][CodecNext]_vars

(***************************************************************************)
(* The solver on its own: systems of up to MaxRows equations in up to      *)
(* MaxCols variables (square, overdetermined and underdetermined).         *)
(***************************************************************************)
MaxRows == 3
MaxCols == 2

\* The field elements the coefficients and the right-hand sides are taken from.
CoefficientInputs == {0, 1, 6}
TargetInputs == {0, 1, 7}

RECURSIVE SeqsOfLen(_, _)
\* The sequences over S of length n.
SeqsOfLen(S, n) ==
  IF n = 0 THEN {<<>>}
  ELSE {Append(q, x) : q \in SeqsOfLen(S, n - 1), x \in S}

\* The rows x cols coefficient matrices.
AMatrixInputs(rows, cols) ==
  {new_with_data(rows, cols, data) : data \in SeqsOfLen(CoefficientInputs, rows * cols)}

\* The right-hand sides for a matrix of `rows` rows: every vector of that
\* length, and one that is an element short.
YVectorInputs(rows) ==
  SeqsOfLen(TargetInputs, rows) \cup {Fill(1, rows - 1)}

SolveCall ==
  /\ pc = "idle"
  /\ call = NoCall
  /\ \E rows \in 1..MaxRows, cols \in 1..MaxCols :
       \E a_matrix \in AMatrixInputs(rows, cols), y_vector \in YVectorInputs(rows) :
          call' = [op |-> "solve_linear_system", a_matrix |-> a_matrix, y_vector |-> y_vector,
                   out |-> solve_linear_system(a_matrix, y_vector)]
  /\ UNCHANGED <<pc, keys, frame, twin>>

SolverNext == SolveCall

SolverSpec == Init /\ [][SolverNext]_vars

(***************************************************************************)
(* The field arithmetic on its own.  A GFElement holds any u8, so the      *)
(* operations are called on every byte; the field laws are about nibbles.  *)
(***************************************************************************)
MaxExp == 15

GF16 == 0..15

\* The second operand of a call on two bytes.
OperandInputs == {0, 1, 15, 16, 170, 255}

\* The products and sums the field laws compare, for three field elements.
GfLawsCall ==
  /\ pc = "idle"
  /\ call = NoCall
  /\ \E a \in GF16, b \in GF16, c \in GF16 :
       call' = [op |-> "gf16_laws", a |-> a, b |-> b, c |-> c,
                add_ab |-> gf16_add(a, b), add_ba |-> gf16_add(b, a),
                mul_ab |-> gf16_mul(a, b), mul_ba |-> gf16_mul(b, a),
                mul_ab_c |-> gf16_mul(gf16_mul(a, b), c),
                mul_a_bc |-> gf16_mul(a, gf16_mul(b, c)),
                mul_a_add_bc |-> gf16_mul(a, gf16_add(b, c)),
                add_mul_ab_mul_ac |-> gf16_add(gf16_mul(a, b), gf16_mul(a, c))]
  /\ UNCHANGED <<pc, keys, frame, twin>>

\* gf16_add, gf16_sub and gf16_mul on two bytes.
GfBinaryCall ==
  /\ pc = "idle"
  /\ call = NoCall
  /\ \E a \in Byte, b \in OperandInputs :
       call' = [op |-> "gf16_binary", a |-> a, b |-> b,
                add |-> gf16_add(a, b), sub |-> gf16_sub(a, b), mul |-> gf16_mul(a, b)]
  /\ UNCHANGED <<pc, keys, frame, twin>>

GfPowCall ==
  /\ pc = "idle"
  /\ call = NoCall
  /\ \E base \in Byte, exp \in 0..MaxExp :
       call' = [op |-> "gf16_pow", base |-> base, exp |-> exp, out |-> gf16_pow(base, exp)]
  /\ UNCHANGED <<pc, keys, frame, twin>>

\* gf16_inv, and the product of the element with its inverse.
GfInvCall ==
  /\ pc = "idle"
  /\ call = NoCall
  /\ \E element \in Byte :
       \E inv \in {gf16_inv(element)} :
          call' = [op |-> "gf16_inv", element |-> element, out |-> inv,
                   product |-> IF inv.ok THEN Some(gf16_mul(element, inv.val)) ELSE None]
  /\ UNCHANGED <<pc, keys, frame, twin>>

GfNext ==
  \/ GfLawsCall
  \/ GfBinaryCall
  \/ GfPowCall
  \/ GfInvCall

GfSpec == Init /\ [][GfNext]_vars

(***************************************************************************)
(* matrix_symmetrize on its own: matrices of up to MaxDim rows and columns.*)
(***************************************************************************)
MaxDim == 2

EntryInputs == {0, 1, 6, 9}

\* The rows x cols matrices.
GFMatrixInputs(rows, cols) ==
  {new_with_data(rows, cols, data) : data \in SeqsOfLen(EntryInputs, rows * cols)}

SymmetrizeCall ==
  /\ pc = "idle"
  /\ call = NoCall
  /\ \E rows \in 0..MaxDim, cols \in 0..MaxDim :
       \E matrix \in GFMatrixInputs(rows, cols) :
          call' = [op |-> "matrix_symmetrize", matrix |-> matrix,
                   out |-> matrix_symmetrize(matrix)]
  /\ UNCHANGED <<pc, keys, frame, twin>>

\* The entries of the factors of a product.
FactorInputs == {6, 9}

FactorMatrixInputs(rows, cols) ==
  {new_with_data(rows, cols, data) : data \in SeqsOfLen(FactorInputs, rows * cols)}

\* matrix_mul(a, b), its transpose, and the product of the transposes the
\* other way round.
\* The second factors: the matrices whose entries repeat x, y, y row by row.
SecondFactorInputs(rows, cols) ==
  {new_with_data(rows, cols, [k \in 1..(rows * cols) |-> IF k % 3 = 1 THEN x ELSE y]) :
     x \in FactorInputs, y \in FactorInputs}

MulTransposeCall ==
  /\ pc = "idle"
  /\ call = NoCall
  /\ \E rows \in 0..MaxDim, inner \in 0..MaxDim, b_rows \in 0..MaxDim, cols \in 0..MaxDim :
       \E a \in FactorMatrixInputs(rows, inner), b \in SecondFactorInputs(b_rows, cols) :
          \E product \in {matrix_mul(a, b)} :
             call' = [op |-> "matrix_mul", a |-> a, b |-> b, out |-> product,
                      transposed |-> IF product.ok THEN Some(matrix_transpose(product.val))
                                     ELSE None,
                      of_transposes |-> matrix_mul(matrix_transpose(b), matrix_transpose(a))]
  /\ UNCHANGED <<pc, keys, frame, twin>>

MatrixNext ==
  \/ SymmetrizeCall
  \/ MulTransposeCall

MatrixSpec == Init /\ [][MatrixNext]_vars

(***************************************************************************)
(* The program together with the quadratic form s^T (M + M^T) s that sign  *)
(* and verify compute: the three calls on a square matrix and a vector of  *)
(* its size.                                                               *)
(***************************************************************************)
\* let sym = matrix_symmetrize(m)?; let temp = matrix_vec_mul_transpose_gfvector(s, &sym)?;
\* vector_dot_product(&temp, s)
quadratic_form(vector, matrix) ==
  LET dot(temp) ==
        IF ~temp.ok THEN Err(temp.err) ELSE vector_dot_product(temp.val, vector)
      mul(sym) ==
        IF ~sym.ok THEN Err(sym.err)
        ELSE dot(matrix_vec_mul_transpose_gfvector(vector, sym.val))
  IN mul(matrix_symmetrize(matrix))

QuadraticFormCall ==
  /\ pc = "idle" /\ call = NoCall
  /\ \E size \in 0..MaxDim :
       \E matrix \in FactorMatrixInputs(size, size), vector \in SeqsOfLen(EntryInputs, size) :
          call' = [op |-> "quadratic_form", matrix |-> matrix, vector |-> vector,
                   out |-> quadratic_form(vector, matrix)]
  /\ UNCHANGED <<pc, keys, frame, twin>>

FormNext ==
  \/ Next
  \/ QuadraticFormCall

FormSpec == Init /\ [][FormNext]_vars

(***************************************************************************)
(* The claims of the specification.                                        *)
(***************************************************************************)
\* The expanded public key of the caller's key pair.
matching_epk == expand_pk(keys.v.cpk, params).val

\* The last call verified, with the matching public key and the signed
\* message, a signature that sign_message returned for the prescribed
\* expanded secret key of the caller's key pair.
VerifiedOwnSignature ==
  /\ pc = "idle"
  /\ keys.some
  /\ call.op = "verify_signature"
  /\ call.signed.some
  /\ call.signed.v.esk = prescribed_esk(keys.v.csk)
  /\ call.signed.v.message = call.message
  /\ call.epk = matching_epk

\* C1: end-to-end correctness.  Every signature that sign_message returns
\* for a message under the expanded secret key prescribed by ExpandSK makes
\* verify_signature, under the expanded public key of the same seed and the
\* same message, return true.
C1_EndToEndCorrectness ==
  VerifiedOwnSignature => (call.out.ok /\ call.out.val = TRUE)

\* The last call was expand_sk on the compact secret key keygen generated.
ExpandedOwnCsk ==
  /\ pc = "idle"
  /\ keys.some
  /\ call.op = "expand_sk"
  /\ call.csk = keys.v.csk

\* C2: for a csk generated by keygen, expand_sk succeeds, and its output is
\* csk, then the o_bytes bytes of the SHAKE256 stream of the seed that follow
\* the first pk_seed_bytes, then the p1_bytes bytes derive_p1 gives for seed_pk.
C2_ExpandSkSucceedsWithLayout ==
  ExpandedOwnCsk =>
    LET xof == Shake256(call.csk, params.pk_seed_bytes + params.o_bytes)
        seed_pk == SubSeq(xof, 1, params.pk_seed_bytes)
        a == params.sk_seed_bytes
        b == a + params.o_bytes
        c == b + params.p1_bytes
    IN /\ call.out.ok
       /\ Len(call.out.val) >= c
       /\ SubSeq(call.out.val, 1, a) = call.csk
       /\ SubSeq(call.out.val, a + 1, b) = SubSeq(xof, params.pk_seed_bytes + 1, Len(xof))
       /\ SubSeq(call.out.val, b + 1, c) = derive_p1_bytes(seed_pk, params).val

\* The number of bytes of the L part that expand_sk and sign_message ask for.
RequiredLBytes ==
  bytes_for_gf16_elements(params.m * (params.n - params.o) * (params.n - params.o))

\* C3: the expanded secret key has sk_seed_bytes + o_bytes + p1_bytes +
\* ceil(m * v * v / 2) bytes, its L part being the nibble packing of the m
\* matrices L_i of shape v x o: the encoded L matrices are as long as the L
\* part that expand_sk and sign_message require.
C3_EncodedLHasRequiredLength ==
  ExpandedOwnCsk =>
    LET parts == expand_sk_components(call.csk, params)
    IN /\ parts.ok
       /\ Len(parts.val.l_all_bytes) =
            bytes_for_gf16_elements(params.m * (params.n - params.o) * params.o)
       /\ Len(parts.val.l_all_bytes) = RequiredLBytes
       /\ call.out.ok =>
            Len(call.out.val) = params.sk_seed_bytes + params.o_bytes + params.p1_bytes
                                + RequiredLBytes

\* C4: for a cpk of pk_seed_bytes + p3_bytes bytes, expand_pk returns an epk
\* of p1_bytes + p2_bytes + p3_bytes bytes: derive_p1(seed_pk), then
\* derive_p2(seed_pk), then the bytes of cpk after seed_pk, unchanged.
C4_ExpandPkLayout ==
  (pc = "idle" /\ call.op = "expand_pk"
   /\ Len(call.cpk) = params.pk_seed_bytes + params.p3_bytes) =>
    LET seed_pk == SubSeq(call.cpk, 1, params.pk_seed_bytes)
        a == params.p1_bytes
        b == a + params.p2_bytes
    IN /\ call.out.ok
       /\ Len(call.out.val) = params.p1_bytes + params.p2_bytes + params.p3_bytes
       /\ SubSeq(call.out.val, 1, a) = derive_p1_bytes(seed_pk, params).val
       /\ SubSeq(call.out.val, a + 1, b) = derive_p2_bytes(seed_pk, params).val
       /\ SubSeq(call.out.val, b + 1, Len(call.out.val))
            = SubSeq(call.cpk, params.pk_seed_bytes + 1, Len(call.cpk))

\* expand_pk has returned an epk for a cpk of the right length whose P3 part
\* is not the one keygen derived.
C4_Witness ==
  /\ pc = "idle"
  /\ call.op = "expand_pk"
  /\ Len(call.cpk) = params.pk_seed_bytes + params.p3_bytes
  /\ call.cpk # keys.v.cpk
  /\ call.out.ok

\* The errors that report a key or signature input of the wrong length.
LengthErrors ==
  {"Compact public key has incorrect length",
   "Expanded secret key has incorrect total length based on components",
   "Expanded public key has incorrect length",
   "Signature has incorrect length",
   "Signed message is too short to contain a signature"}

SignatureLength == bytes_for_gf16_elements(params.n) + params.salt_bytes

\* The last call was given a key or signature of a wrong length.
WrongLengthInput ==
  \/ call.op = "expand_sk" /\ Len(call.csk) # params.sk_seed_bytes
  \/ call.op = "sign" /\ Len(call.key) # params.sk_seed_bytes
  \/ call.op = "expand_pk" /\ Len(call.cpk) # params.pk_seed_bytes + params.p3_bytes
  \/ call.op = "sign_message"
     /\ Len(call.esk) # params.sk_seed_bytes + params.o_bytes + params.p1_bytes
                         + RequiredLBytes
  \/ call.op = "verify_signature"
     /\ \/ Len(call.epk) # params.p1_bytes + params.p2_bytes + params.p3_bytes
        \/ Len(call.signature) # SignatureLength
  \/ call.op = "open"
     /\ \/ Len(call.cpk) # params.pk_seed_bytes + params.p3_bytes
        \/ Len(call.signed_message) < SignatureLength

\* C5: every entry point given a key or signature of a wrong length fails
\* with a length error as its first action, before any derivation; expand_sk
\* and api sign reject a csk that is not sk_seed_bytes long.
C5_LengthChecksFirst ==
  (pc = "idle" /\ call.op # "none" /\ call.op # "keypair" /\ WrongLengthInput) =>
    /\ ~call.out.ok
    /\ call.out.err \in LengthErrors
    /\ call.out.derivations = 0

\* The last call was verify_signature on inputs of the right lengths.
VerifiedRightLengths ==
  /\ call.op = "verify_signature"
  /\ Len(call.epk) = params.p1_bytes + params.p2_bytes + params.p3_bytes
  /\ Len(call.signature) = SignatureLength

\* y = t for the inputs of the last verify_signature call: t the target of
\* the message digest and the salt of the signature, y the public map at the
\* decoded s under the matrices decoded from epk.
RecomputedYEqualsT ==
  LET a == params.p1_bytes
      b == a + params.p2_bytes
      s_len == bytes_for_gf16_elements(params.n)
      s_vector == decode_gf_elements(SubSeq(call.signature, 1, s_len), params.n).val
      salt == SubSeq(call.signature, s_len + 1, Len(call.signature))
      t == decode_gf_elements(
             shake256_derive_target_t(shake256_digest(call.message, params), salt, params),
             params.m).val
      y == compute_p_star_s(s_vector,
                            decode_p1_matrices(SubSeq(call.epk, 1, a), params).val,
                            decode_p2_matrices(SubSeq(call.epk, a + 1, b), params).val,
                            decode_p3_matrices(SubSeq(call.epk, b + 1, Len(call.epk)),
                                               params).val,
                            params).val
  IN y = t

\* C6: verify_signature returns no error for inputs of the right lengths, but
\* Ok(true) when the recomputed y equals t and Ok(false) otherwise; it
\* returns an error exactly when the length of epk or of sig is wrong.
C6_VerifyErrorsOnlyOnLengths ==
  (pc = "idle" /\ call.op = "verify_signature") =>
    /\ call.out.ok <=> VerifiedRightLengths
    /\ VerifiedRightLengths => (call.out.val <=> RecomputedYEqualsT)
    /\ ~VerifiedRightLengths => call.out.err \in LengthErrors

\* verify_signature has returned Ok(true) for inputs of the right lengths.
C6_Witness ==
  /\ pc = "idle"
  /\ VerifiedRightLengths
  /\ call.out.ok
  /\ call.out.val = TRUE

\* The last call was open on a signed message at least as long as a signature.
OpenedLongEnough ==
  /\ call.op = "open"
  /\ Len(call.signed_message) >= SignatureLength

\* C7: open splits the signed message into the first ceil(n/2) + salt_bytes
\* bytes, the signature, and the rest, the message; it returns Some(message)
\* with exactly the rest when verify_signature returns true, None when it
\* returns false, and an error when the signed message is shorter than a
\* signature.
C7_OpenSplitsAndReturnsMessage ==
  (pc = "idle" /\ call.op = "open") =>
    LET signature == SubSeq(call.signed_message, 1, SignatureLength)
        message == SubSeq(call.signed_message, SignatureLength + 1,
                          Len(call.signed_message))
        epk == expand_pk(call.cpk, params)
        verified == verify_signature(epk.val, message, signature, params)
    IN /\ ~OpenedLongEnough =>
            (~call.out.ok
             /\ call.out.err = "Signed message is too short to contain a signature")
       /\ (OpenedLongEnough /\ epk.ok /\ verified.ok /\ verified.val) =>
            (call.out.ok /\ call.out.val = Some(message))
       /\ (OpenedLongEnough /\ epk.ok /\ verified.ok /\ ~verified.val) =>
            (call.out.ok /\ call.out.val = None)

\* open has returned a message of one byte.
C7_Witness ==
  /\ pc = "idle"
  /\ call.op = "open"
  /\ call.out.ok
  /\ call.out.val.some
  /\ call.out.val.v = <<21>>
  /\ Len(call.signed_message) = SignatureLength + 1

\* The solver ran in the pass a and returned Some(x).
SolvedSome(a) == a.solved.some /\ a.solved.v.ok /\ a.solved.v.val.some

\* The solver ran in the pass a and returned None or an error.
SolvedNothing(a) == a.solved.some /\ ~(a.solved.v.ok /\ a.solved.v.val.some)

ExhaustedError == "MAYO.Sign failed after maximum retries"

\* One step of the loop of sign_message, from the frame to the primed frame.
C8_Step ==
  /\ retry_count' = retry_count + 1
  /\ retry_count' <= 256
  /\ SolvedSome(attempt') => (pc' = "returning" /\ call'.out.ok)
  /\ (SolvedNothing(attempt') /\ retry_count' < 256) =>
       (pc' = "signing" /\ call' = call /\ locals' = locals)
  /\ (SolvedNothing(attempt') /\ retry_count' >= 256) =>
       (pc' = "returning" /\ ~call'.out.ok /\ call'.out.err = ExhaustedError)
  /\ (pc' = "returning" /\ call'.out.err = ExhaustedError) =>
       (retry_count' = 256 /\ SolvedNothing(attempt'))
  /\ pc' = "signing" => SolvedNothing(attempt')

\* C8: the sign loop follows the stated machine.  A pass whose solve returns
\* Some(x) emits the signature at once; a pass whose solve returns None or an
\* error starts another pass if fewer than 256 passes have been made, and
\* otherwise sign_message fails with the exhausted error.  No call makes more
\* than 256 passes, and the exhausted error comes only after exactly 256
\* failed passes.
C8_AttemptLoopStateMachine == [][pc = "signing" => C8_Step]_vars

\* sign_message is about to return the exhausted error after 256 passes.
C8_Witness ==
  /\ pc = "returning"
  /\ call.out.err = ExhaustedError
  /\ retry_count = 256
  /\ SolvedNothing(attempt)

\* C9 as amended: each pass of the sign loop that draws its salt and its
\* vinegar vector takes salt_bytes + v bytes from the RNG, salt_bytes for the
\* salt and one byte for each of the v vinegar nibbles; a call that succeeds
\* on pass j has taken j * (salt_bytes + v) bytes.
C9_RngBytesOnePerVinegarNibble ==
  (pc = "signing" \/ (pc = "returning" /\ call.out.ok)) =>
    rng_bytes = retry_count * (params.salt_bytes + (params.n - params.o))

\* C9 as stated: each pass takes salt_bytes + ceil(v * 4 / 8) bytes from the
\* RNG, so a call that succeeds on pass j has taken
\* j * (salt_bytes + ceil(v / 2)) bytes.
C9_RngBytesPackedNibbles ==
  (pc = "signing" \/ (pc = "returning" /\ call.out.ok)) =>
    rng_bytes = retry_count * (params.salt_bytes
                               + bytes_for_gf16_elements(params.n - params.o))

\* sign_message is about to return a signature found on its third pass.
C9_Witness ==
  /\ pc = "returning"
  /\ call.out.ok
  /\ retry_count = 3

\* C10: on success sign_message returns encode(s) followed by salt,
\* ceil(n/2) + salt_bytes bytes, where s = s_V followed by x has n elements,
\* s_V and salt are the vinegar vector and the salt of the successful pass
\* and x is the solution the solver found in that pass; nothing of an
\* earlier, failed pass is in the signature.
C10_SignatureOfTheSuccessfulPass ==
  (pc = "returning" /\ call.out.ok) =>
    LET s_len == bytes_for_gf16_elements(params.n)
        x == attempt.solved.v.val.v
        s == attempt.vinegar_vars \o x
        t == decode_gf_elements(
               shake256_derive_target_t(locals.m_digest, attempt.salt, params), params.m).val
        lin == compute_lin_system_components(attempt.vinegar_vars, locals.p1_matrices,
                                             locals.l_matrices, params).val
        b == matrix_sub_vectors_gfvector(t, lin.y_prime_vector).val
    IN /\ SolvedSome(attempt)
       /\ Len(attempt.vinegar_vars) = params.n - params.o
       /\ Len(attempt.salt) = params.salt_bytes
       /\ Len(s) = params.n
       /\ attempt.solved.v = solve_linear_system(lin.a_matrix, b)
       /\ Len(call.out.val) = s_len + params.salt_bytes
       /\ SubSeq(call.out.val, 1, s_len) = encode_gf_elements(s)
       /\ SubSeq(call.out.val, s_len + 1, Len(call.out.val)) = attempt.salt
       /\ (failed # NoFrame /\ failed.salt # attempt.salt) =>
            SubSeq(call.out.val, s_len + 1, Len(call.out.val)) # failed.salt

\* sign_message is about to return a signature after a failed pass that had
\* another salt and another vinegar vector.
C10_Witness ==
  /\ pc = "returning"
  /\ call.out.ok
  /\ retry_count >= 2
  /\ failed # NoFrame
  /\ SolvedNothing(failed)
  /\ failed.salt # attempt.salt
  /\ failed.vinegar_vars # attempt.vinegar_vars

C12_DecodeInvertsEncode ==
  (call.op = "encode_gf_elements" /\ \A i \in 1..Len(call.elements) : call.elements[i] < 16) =>
     call.decoded = Ok(call.elements)

\* A nibble-valued vector of odd length went through encode and decode.
C12_Witness ==
  /\ call.op = "encode_gf_elements"
  /\ call.elements = <<9, 15, 1>>
  /\ call.out = <<159, 16>>
  /\ call.decoded = Ok(<<9, 15, 1>>)

\* The i-th nibble (counted from 1) of a byte string: the high nibble of a
\* byte before its low nibble.
NibbleAt(bytes, i) ==
  IF i % 2 = 1 THEN bytes[(i + 1) \div 2] \div 16 ELSE bytes[i \div 2] % 16

HalfRoundedUp(n) == (n \div 2) + (n % 2)

\* C13: encode_gf_elements(V) is ceil(|V| / 2) bytes, byte i holding element 2i
\* in its high nibble and element 2i + 1 in its low nibble (counted from 0), the
\* low nibble of the last byte zero when |V| is odd; decode_gf_elements(bytes, n)
\* fails when there are fewer than ceil(n / 2) bytes, and otherwise returns the
\* first n nibbles whatever the padding nibble and the later bytes hold.
C13_NibbleLayoutAndPadding ==
  /\ call.op = "encode_gf_elements" =>
       /\ Len(call.out) = HalfRoundedUp(Len(call.elements))
       /\ \A i \in 1..Len(call.out) :
            /\ call.out[i] \div 16 = call.elements[2 * i - 1] % 16
            /\ call.out[i] % 16 = IF 2 * i <= Len(call.elements)
                                  THEN call.elements[2 * i] % 16 ELSE 0
  /\ call.op = "decode_gf_elements" =>
       IF Len(call.bytes) < HalfRoundedUp(call.num_elements)
       THEN ~call.out.ok
       ELSE /\ call.out.ok
            /\ Len(call.out.val) = call.num_elements
            /\ \A i \in 1..call.num_elements : call.out.val[i] = NibbleAt(call.bytes, i)
            /\ \A other \in ByteStringInputs :
                 (/\ Len(other) >= HalfRoundedUp(call.num_elements)
                  /\ \A i \in 1..call.num_elements :
                       NibbleAt(other, i) = NibbleAt(call.bytes, i))
                 => decode_gf_elements(other, call.num_elements) = call.out

\* Three elements decoded from three bytes: the low nibble of the second byte
\* and the third byte are not zero and are left out.
C13_Witness ==
  /\ call.op = "decode_gf_elements"
  /\ call.bytes = <<165, 255, 165>>
  /\ call.num_elements = 3
  /\ call.out = Ok(<<10, 5, 15>>)

MatrixDecoders ==
  {"decode_o_matrix", "decode_p1_matrices", "decode_p2_matrices", "decode_p3_matrices"}

\* C14: decode_o_matrix, decode_p1_matrices, decode_p2_matrices and
\* decode_p3_matrices each return an error whenever the input is shorter or
\* longer than the declared length (o_bytes, p1_bytes, p2_bytes, p3_bytes).
C14_DecodersRejectEveryOtherLength ==
  (call.op \in MatrixDecoders /\ Len(call.bytes) # call.declared) => ~call.out.ok

RECURSIVE RowTimes(_, _, _, _)
\* Row r of a times the vector x, from column c on (r and c counted from 0).
RowTimes(a, x, r, c) ==
  IF c >= a.cols THEN 0
  ELSE gf16_add(gf16_mul(get_unsafe(a, r, c), x[c + 1]), RowTimes(a, x, r, c + 1))

\* A . x = y over GF(16).
Solves(a, x, y) ==
  /\ Len(x) = a.cols
  /\ \A r \in 0..(a.rows - 1) : RowTimes(a, x, r, 0) = y[r + 1]

\* C15: whenever solve_linear_system returns Some(x) for A (m x o) and b, x has
\* o elements and A . x = b over GF(16).
C15_SolverIsSound ==
  (call.op = "solve_linear_system" /\ call.out.ok /\ call.out.val.some) =>
     Solves(call.a_matrix, call.out.val.v, call.y_vector)

\* The overdetermined system A = [[1, 0], [0, 1], [6, 1]], b = [1, 7, 1] is
\* solved by x = [1, 7].
C15_Witness ==
  /\ call.op = "solve_linear_system"
  /\ call.a_matrix = new_with_data(3, 2, <<1, 0, 0, 1, 6, 1>>)
  /\ call.y_vector = <<1, 7, 1>>
  /\ call.out = Ok(Some(<<1, 7>>))

\* A . x = y has a solution over GF(16).
Solvable(a, y) ==
  \E x \in [1..a.cols -> 0..15] :
     \A r \in 0..(a.rows - 1) : RowTimes(a, x, r, 0) = y[r + 1]

\* C16: solve_linear_system returns None exactly when A . x = b has no solution
\* over GF(16), Some(x) for every system that has one (square, overdetermined
\* or underdetermined), and an error only when the number of rows of A differs
\* from the length of b.
C16_NoneExactlyWhenInconsistent ==
  call.op = "solve_linear_system" =>
     /\ ~call.out.ok => call.a_matrix.rows # Len(call.y_vector)
     /\ call.out.ok => (call.out.val.some <=> Solvable(call.a_matrix, call.y_vector))

\* A = [[1, 1], [1, 1]], b = [1, 7] has no solution and the solver returns None.
C16_Witness ==
  /\ call.op = "solve_linear_system"
  /\ call.a_matrix = new_with_data(2, 2, <<1, 1, 1, 1>>)
  /\ call.y_vector = <<1, 7>>
  /\ ~Solvable(call.a_matrix, call.y_vector)
  /\ call.out = Ok(None)

\* C17: for all a, b, c in 0..15, gf16_add and gf16_mul are commutative,
\* gf16_mul is associative, and gf16_mul distributes over gf16_add.
C17_FieldLaws ==
  call.op = "gf16_laws" =>
     /\ call.add_ab = call.add_ba
     /\ call.mul_ab = call.mul_ba
     /\ call.mul_ab_c = call.mul_a_bc
     /\ call.mul_a_add_bc = call.add_mul_ab_mul_ac

\* The laws on 2, 9 and 7, where the products wrap around the polynomial:
\* 2 * 9 = 1, (2 * 9) * 7 = 7 = 2 * (9 * 7) and 2 * (9 + 7) = 15.
C17_Witness ==
  /\ call.op = "gf16_laws"
  /\ call.a = 2 /\ call.b = 9 /\ call.c = 7
  /\ call.mul_ab = 1
  /\ call.mul_ab_c = 7
  /\ call.mul_a_add_bc = 15

\* C18: for every nonzero a in GF(16), gf16_inv(a) succeeds with
\* gf16_pow(a, 14) and gf16_mul(a, gf16_inv(a)) = 1; gf16_inv(0) is an error.
C18_InverseOfNonzero ==
  call.op = "gf16_inv" =>
     /\ call.element = 0 => (~call.out.ok /\ call.out.err = "Cannot invert zero element")
     /\ call.element \in 1..15 =>
          /\ call.out = Ok(gf16_pow(call.element, 14))
          /\ call.product = Some(1)

\* The inverse of 2 is 9.
C18_Witness ==
  /\ call.op = "gf16_inv"
  /\ call.element = 2
  /\ call.out = Ok(9)
  /\ call.product = Some(1)

\* C19: every element that gf16_add, gf16_sub, gf16_mul, gf16_pow and gf16_inv
\* produce is below 16 (the high nibble of its byte is zero), for every input
\* byte and every exponent, 0 and 1 included.
C19_OutputsRespectNibbleMask ==
  /\ call.op = "gf16_binary" => (call.add < 16 /\ call.sub < 16 /\ call.mul < 16)
  /\ call.op = "gf16_pow" => call.out < 16
  /\ (call.op = "gf16_inv" /\ call.out.ok) => call.out.val < 16

RECURSIVE Schoolbook(_, _, _, _, _)
Schoolbook(a, b, r, c, k) ==
  IF k >= a.cols THEN 0
  ELSE gf16_add(gf16_mul(get_unsafe(a, r, k), get_unsafe(b, k, c)),
                Schoolbook(a, b, r, c, k + 1))

\* C21: for A (r x k) and B (k x c) over GF(16), the transpose of
\* matrix_mul(A, B) is matrix_mul of the transpose of B and the transpose of A;
\* matrix_mul is the schoolbook product and returns an error exactly when
\* A.cols differs from B.rows.
C21_TransposeOfProduct ==
  call.op = "matrix_mul" =>
     /\ ~call.out.ok <=> call.a.cols # call.b.rows
     /\ call.out.ok =>
          /\ call.out.val.rows = call.a.rows
          /\ call.out.val.cols = call.b.cols
          /\ Len(call.out.val.data) = call.a.rows * call.b.cols
          /\ \A r \in 0..(call.a.rows - 1), c \in 0..(call.b.cols - 1) :
               get_unsafe(call.out.val, r, c) = Schoolbook(call.a, call.b, r, c, 0)
          /\ call.of_transposes = Ok(call.transposed.v)

\* A product of two 2 x 2 matrices that is not symmetric: its transpose
\* differs from it and is the product of the transposes.
C21_Witness ==
  /\ call.op = "matrix_mul"
  /\ call.a = new_with_data(2, 2, <<6, 9, 9, 9>>)
  /\ call.b = new_with_data(2, 2, <<6, 9, 9, 6>>)
  /\ call.out.ok
  /\ call.out.val.data[2] # call.out.val.data[3]
  /\ call.transposed.some
  /\ call.transposed.v # call.out.val
  /\ call.of_transposes = Ok(call.transposed.v)

\* The bytes that hold `elements` nibbles: elements / 2 rounded up.
BytesOfNibbles(elements) == (elements \div 2) + (elements % 2)

RECURSIVE BilinearSum(_, _, _, _)
\* The sum over the entries (r, c) of an R x C matrix, from the k-th on in
\* row-major order, of x[r] * entry(r, c) * y[c].
BilinearSum(x, y, entry(_, _), k) ==
  IF k >= Len(x) * Len(y) THEN 0
  ELSE gf16_add(gf16_mul(gf16_mul(x[(k \div Len(y)) + 1], entry(k \div Len(y), k % Len(y))),
                         y[(k % Len(y)) + 1]),
                BilinearSum(x, y, entry, k + 1))

\* y_i = s_V^T (P1_i + P1_i^T) s_V + s_V^T P2_i s_O + s_O^T (P3_i + P3_i^T) s_O.
PublicMapAt(s_v, s_o, p1_i, p2_i, p3_i) ==
  LET p1_sym(r, c) == gf16_add(get_unsafe(p1_i, r, c), get_unsafe(p1_i, c, r))
      p2(r, c) == get_unsafe(p2_i, r, c)
      p3_sym(r, c) == gf16_add(get_unsafe(p3_i, r, c), get_unsafe(p3_i, c, r))
  IN gf16_add(gf16_add(BilinearSum(s_v, s_v, p1_sym, 0), BilinearSum(s_v, s_o, p2, 0)),
              BilinearSum(s_o, s_o, p3_sym, 0))

\* The parts of the last verify_signature call: s_V and s_O decoded from the
\* head of the signature, the salt from its tail, the matrices from epk.
VerifyParts ==
  LET a == params.p1_bytes
      b == a + params.p2_bytes
      v == params.n - params.o
      s_len == bytes_for_gf16_elements(params.n)
      s == decode_gf_elements(SubSeq(call.signature, 1, s_len), params.n).val
  IN [s_v |-> SubSeq(s, 1, v),
      s_o |-> SubSeq(s, v + 1, params.n),
      salt |-> SubSeq(call.signature, s_len + 1, Len(call.signature)),
      p1 |-> decode_p1_matrices(SubSeq(call.epk, 1, a), params).val,
      p2 |-> decode_p2_matrices(SubSeq(call.epk, a + 1, b), params).val,
      p3 |-> decode_p3_matrices(SubSeq(call.epk, b + 1, Len(call.epk)), params).val]

VerifyY(parts) ==
  [i \in 1..params.m |->
     PublicMapAt(parts.s_v, parts.s_o, parts.p1[i], parts.p2[i], parts.p3[i])]

VerifyT(parts) ==
  decode_gf_elements(
    shake256_derive_target_t(shake256_digest(call.message, params), parts.salt, params),
    params.m).val

\* C23: verify_signature computes y_i = s_V^T (P1_i + P1_i^T) s_V +
\* s_V^T P2_i s_O + s_O^T (P3_i + P3_i^T) s_O for each i, with s_V = s[0..v] and
\* s_O = s[v..n] decoded from the signature, derives t from SHAKE256(M) and the
\* salt at the tail of the signature, and returns true exactly when y = t
\* element by element.
C23_VerifyComparesPublicMapWithTarget ==
  (pc = "idle" /\ VerifiedRightLengths) =>
     /\ call.out.ok
     /\ call.out.val <=> \A i \in 1..params.m : VerifyY(VerifyParts)[i] = VerifyT(VerifyParts)[i]

\* verify_signature has returned Ok(false) for a signature whose y is not
\* zero and differs from t.
C23_Witness ==
  /\ pc = "idle"
  /\ VerifiedRightLengths
  /\ call.out.ok
  /\ call.out.val = FALSE
  /\ \E i \in 1..params.m : VerifyY(VerifyParts)[i] # 0
  /\ \E i \in 1..params.m : VerifyY(VerifyParts)[i] # VerifyT(VerifyParts)[i]

\* The P1 and L matrices decoded from the expanded key of the running call.
EskMatrices ==
  LET p1_at == params.sk_seed_bytes + params.o_bytes
      l_at == p1_at + params.p1_bytes
  IN [p1 |-> decode_p1_matrices(SubSeq(call.esk, p1_at + 1, l_at), params).val,
      l |-> decode_l_matrices(SubSeq(call.esk, l_at + 1, Len(call.esk)), params).val]

RECURSIVE ColumnSum(_, _, _, _)
\* The sum over the rows r >= k of x[r] * matrix[r, c].
ColumnSum(x, matrix, c, k) ==
  IF k >= Len(x) THEN 0
  ELSE gf16_add(gf16_mul(x[k + 1], get_unsafe(matrix, k, c)), ColumnSum(x, matrix, c, k + 1))

\* y'_i = s_V^T (P1_i + P1_i^T) s_V.
YPrimeAt(s_v, p1_i) ==
  LET p1_sym(r, c) == gf16_add(get_unsafe(p1_i, r, c), get_unsafe(p1_i, c, r))
  IN BilinearSum(s_v, s_v, p1_sym, 0)

\* The target derived from the digest of the message and the salt drawn in
\* the pass.
TargetOfPass ==
  decode_gf_elements(
    shake256_derive_target_t(shake256_digest(call.message, params), attempt.salt, params),
    params.m).val

PassReachedSolver == pc \in {"signing", "returning"} /\ attempt # NoFrame /\ attempt.system.some

\* C24: in each sign attempt the system handed to the solver is A x = b with m
\* rows and o unknowns, where row A_i = s_V^T L_i, y'_i = s_V^T (P1_i + P1_i^T) s_V
\* and b = t - y' element by element, P1_i and L_i being decoded from the esk
\* and t derived from the salt of the same attempt.
C24_SystemHandedToSolver ==
  PassReachedSolver =>
    LET a == attempt.system.v.a_matrix
        b == attempt.system.v.target_for_solver
        s_v == attempt.vinegar_vars
    IN /\ a.rows = params.m
       /\ a.cols = params.o
       /\ Len(b) = params.m
       /\ \A i \in 1..params.m :
            /\ \A c \in 0..(params.o - 1) :
                 get_unsafe(a, i - 1, c) = ColumnSum(s_v, EskMatrices.l[i], c, 0)
            /\ b[i] = gf16_sub(TargetOfPass[i], YPrimeAt(s_v, EskMatrices.p1[i]))

\* A pass after a failed one, with another salt, has handed the solver a
\* system whose two rows differ and whose right-hand side is not zero.
C24_Witness ==
  /\ PassReachedSolver
  /\ pc = "returning"
  /\ failed # NoFrame
  /\ failed.salt # attempt.salt
  /\ \E c \in 0..(params.o - 1) :
       get_unsafe(attempt.system.v.a_matrix, 0, c) # get_unsafe(attempt.system.v.a_matrix, 1, c)
  /\ \E i \in 1..params.m : attempt.system.v.target_for_solver[i] # 0

\* The pass that has just run took its salt and its vinegar vector from the
\* getrandom results rng, all of them delivered in this pass.
DrawnInThisPass(rng) ==
  /\ rng.salt.ok
  /\ attempt'.salt = rng.salt.val
  /\ Len(rng.vinegar) = params.n - params.o
  /\ Len(attempt'.vinegar_vars) = params.n - params.o
  /\ \A j \in 1..(params.n - params.o) :
       rng.vinegar[j].ok /\ attempt'.vinegar_vars[j] = rng.vinegar[j].val % 16
  /\ rng_bytes' = rng_bytes + params.salt_bytes + (params.n - params.o)

\* C25: the digest of the message is computed once, before the first attempt,
\* and is the same in every attempt; every attempt, the first and each retry,
\* samples a salt and a vinegar vector from the RNG and derives its target t
\* from that salt, whatever the attempt before it had.
C25_FreshSaltVinegarAndTargetEveryAttempt ==
  [][(pc = "signing" /\ retry_count' = retry_count + 1) =>
       /\ locals' = locals
       /\ locals.m_digest = shake256_digest(call.message, params)
       /\ attempt'.system.some =>
            /\ \E rng \in RngOutcomes : DrawnInThisPass(rng)
            /\ attempt'.t_vector =
                 decode_gf_elements(
                   shake256_derive_target_t(locals.m_digest, attempt'.salt, params),
                   params.m).val]_vars

\* The third pass or a later one has reached the solver with a salt, a
\* vinegar vector and a target that all differ from those of the pass before.
C25_Witness ==
  /\ pc = "returning"
  /\ retry_count >= 3
  /\ attempt # NoFrame /\ attempt.system.some
  /\ failed # NoFrame /\ failed.system.some
  /\ failed.salt # attempt.salt
  /\ failed.vinegar_vars # attempt.vinegar_vars
  /\ failed.t_vector # attempt.t_vector

\* [A | y], the matrix the forward pass starts from.
Augmented(a, y) ==
  [rows |-> a.rows, cols |-> a.cols + 1,
   data |-> [j \in 1..(a.rows * (a.cols + 1)) |->
               IF (j - 1) % (a.cols + 1) < a.cols
               THEN get_unsafe(a, (j - 1) \div (a.cols + 1), (j - 1) % (a.cols + 1))
               ELSE y[((j - 1) \div (a.cols + 1)) + 1]]]

\* The augmented matrix and the rank the forward pass ends with.
ForwardPass(a, y) == forward_elimination(Augmented(a, y), 0, 0, a.cols).val

\* The column of the pivot of pivot row r: its first nonzero coefficient.
PivotColumn(aug, r, o) ==
  CHOOSE p \in 0..(o - 1) :
    /\ get_unsafe(aug, r, p) # 0
    /\ \A c \in 0..(p - 1) : get_unsafe(aug, r, c) = 0

RECURSIVE TailSum(_, _, _, _, _)
\* The sum over the columns c, k <= c < o, of aug[r, c] * x[c].
TailSum(aug, r, x, k, o) ==
  IF k >= o THEN 0
  ELSE gf16_add(gf16_mul(get_unsafe(aug, r, k), x[k + 1]), TailSum(aug, r, x, k + 1, o))

SolverReturnedSome ==
  /\ call.op = "solve_linear_system"
  /\ call.out.ok
  /\ call.out.val.some

\* C26: when solve_linear_system returns Some(x), every free column, one in
\* which the forward pass found no pivot, has x[c] = 0, and each pivot column p
\* of pivot row r has x[p] = augmented[r, o] - sum over c > p of
\* augmented[r, c] * x[c]; for a consistent system of deficient rank x is the
\* solution with all free variables zero.
C26_FreeVariablesAreZero ==
  SolverReturnedSome =>
    LET o == call.a_matrix.cols
        x == call.out.val.v
        fwd == ForwardPass(call.a_matrix, call.y_vector)
        pivots == {PivotColumn(fwd.aug, r, o) : r \in 0..(fwd.rank - 1)}
    IN /\ Len(x) = o
       /\ \A c \in (0..(o - 1)) \ pivots : x[c + 1] = 0
       /\ \A r \in 0..(fwd.rank - 1) :
            x[PivotColumn(fwd.aug, r, o) + 1] =
              gf16_sub(get_unsafe(fwd.aug, r, o),
                       TailSum(fwd.aug, r, x, PivotColumn(fwd.aug, r, o) + 1, o))
       /\ Solves(call.a_matrix, x, call.y_vector)

\* The solver has returned (1, 0) for x0 + x1 = 1 stated twice: rank 1, the
\* second column free with a nonzero coefficient in the pivot row.
C26_Witness ==
  /\ SolverReturnedSome
  /\ call.a_matrix = new_with_data(2, 2, <<1, 1, 1, 1>>)
  /\ call.y_vector = <<1, 1>>
  /\ ForwardPass(call.a_matrix, call.y_vector).rank = 1
  /\ call.out.val.v = <<1, 0>>

\* A getrandom call failed in the pass that has just run: the pass got fewer
\* bytes than a salt and a vinegar vector take.
RngFailedInPass ==
  rng_bytes' - rng_bytes < params.salt_bytes + (params.n - params.o)

\* C27: a failure of the RNG while the salt or a vinegar nibble is drawn makes
\* sign_message return an error at once: the caller gets it, it does not count
\* as a failed attempt, and no attempt and no draw follows; only what the
\* solver returns, None or an error, leads to another attempt.
C27_RngFailureIsReturnedAtOnce ==
  [][/\ (pc = "signing" /\ retry_count' = retry_count + 1) =>
          /\ RngFailedInPass =>
               /\ pc' = "returning"
               /\ ~call'.out.ok
               /\ call'.out.err = IF rng_bytes' = rng_bytes
                                  THEN "Failed to generate random salt"
                                  ELSE "Failed to generate random vinegar variable"
          /\ pc' = "signing" =>
               /\ attempt'.system.some
               /\ attempt'.solved.some
               /\ \/ ~attempt'.solved.v.ok
                  \/ ~attempt'.solved.v.val.some
     /\ pc = "returning" =>
          /\ pc' = "idle"
          /\ call' = call
          /\ rng_bytes' = 0]_vars

\* sign_message is about to return the error of a vinegar draw that failed in
\* a pass after one the solver had answered None.
C27_Witness ==
  /\ pc = "returning"
  /\ retry_count >= 2
  /\ call.out.err = "Failed to generate random vinegar variable"
  /\ ~attempt.system.some
  /\ failed # NoFrame
  /\ failed.system.some
  /\ failed.solved.v.ok /\ ~failed.solved.v.val.some
  /\ rng_bytes > (retry_count - 1) * (params.salt_bytes + (params.n - params.o)) + params.salt_bytes

RECURSIVE UpperTriangleFrom(_, _)
\* The entries (r, c), c >= r, of the rows from r on, row by row.
UpperTriangleFrom(matrix, r) ==
  IF r >= matrix.rows THEN <<>>
  ELSE [k \in 1..(matrix.cols - r) |-> get_unsafe(matrix, r, r + k - 1)]
       \o UpperTriangleFrom(matrix, r + 1)

\* C28: decoding an upper-triangular matrix of size s from s(s+1)/2 elements
\* places the elements row by row at the positions (r, c), c >= r, in order,
\* leaves every position below the diagonal zero, and fails when the number of
\* elements is not s(s+1)/2; [1,2,3,4,5,6] with s = 3 gives
\* [[1,2,3],[0,4,5],[0,0,6]].
C28_UpperTriangleRowByRow ==
  call.op = "decode_upper_triangular_matrix" =>
    /\ call.out.ok <=> Len(call.elements) = (call.size * (call.size + 1)) \div 2
    /\ call.out.ok =>
         /\ call.out.val.rows = call.size
         /\ call.out.val.cols = call.size
         /\ Len(call.out.val.data) = call.size * call.size
         /\ UpperTriangleFrom(call.out.val, 0) = call.elements
         /\ \A r \in 0..(call.size - 1) : \A c \in 0..(r - 1) :
              get_unsafe(call.out.val, r, c) = 0
    /\ (call.size = 3 /\ call.elements = <<1, 2, 3, 4, 5, 6>>) =>
         call.out = Ok(new_with_data(3, 3, <<1, 2, 3, 0, 4, 5, 0, 0, 6>>))

\* [1,2,3,4,5,6] has been decoded with s = 3.
C28_Witness ==
  /\ call.op = "decode_upper_triangular_matrix"
  /\ call.size = 3
  /\ call.elements = <<1, 2, 3, 4, 5, 6>>
  /\ call.out.ok
  /\ get_unsafe(call.out.val, 1, 2) = 5

\* The expanded public keys that differ from epk in the P1 bytes and in the
\* P3 bytes only.
OtherP1AndP3(epk) ==
  LET a == params.p1_bytes
      b == a + params.p2_bytes
  IN {Fill(f1, a) \o SubSeq(epk, a + 1, b) \o Fill(f3, params.p3_bytes) :
        f1 \in ByteInputs, f3 \in ByteInputs}

EskLengthAsked ==
  params.sk_seed_bytes + params.o_bytes + params.p1_bytes
  + bytes_for_gf16_elements(params.m * (params.n - params.o) * (params.n - params.o))

\* The O bytes stored in esk are not the ones its seed_sk gives.
StoredODiffers(esk) ==
  SubSeq(esk, params.sk_seed_bytes + 1, params.sk_seed_bytes + params.o_bytes)
    # shake256_xof_derive_pk_seed_and_o(SubSeq(esk, 1, params.sk_seed_bytes), params).o_bytes

\* C30: sign_message validates the esk before the attempt loop and takes no
\* byte from the RNG when the validation fails: it returns an error without
\* sampling a salt or a vinegar vector when the total length of the esk is
\* wrong, when the O bytes stored in it differ from those derived from the
\* seed_sk stored in it, or when a component does not decode.
C30_NoRngBytesWhenEskIsInvalid ==
  /\ (IsSignCall(call) /\ (Len(call.esk) # EskLengthAsked \/ StoredODiffers(call.esk))) =>
       /\ pc = "idle"
       /\ ~call.out.ok
       /\ retry_count = 0
       /\ rng_bytes = 0
       /\ attempt = NoFrame
       /\ call.op = "sign_message" =>
            call.out.err =
              IF Len(call.esk) # EskLengthAsked
              THEN "Expanded secret key has incorrect total length based on components"
              ELSE "O_bytes in ESK does not match derivation from seedsk in ESK"
  /\ (IsSignCall(call) /\ ~sign_message_parse(call.esk, call.message, params).ok) =>
       (pc = "idle" /\ rng_bytes = 0 /\ ~call.out.ok)

\* sign_message has returned the error of the O bytes for an expanded key of
\* the length asked whose stored O bytes were changed.
C30_Witness ==
  /\ call.op = "sign_message"
  /\ pc = "idle"
  /\ Len(call.esk) = EskLengthAsked
  /\ StoredODiffers(call.esk)
  /\ call.out.err = "O_bytes in ESK does not match derivation from seedsk in ESK"
  /\ rng_bytes = 0

=============================================================================
